---- MODULE Spec2Model ----
(***************************************************************************)
(* State-machine model of the weight acquisition pipeline of               *)
(* rpi-weight-gateway: services/weightd/app/hx711.py (HX711Reader) and      *)
(* services/weightd/app/main.py (AppContext).                               *)
(*                                                                         *)
(* Python floats are modelled as exact rationals [n |-> Int, d |-> Nat],    *)
(* kept in lowest terms; the stability test  var ** 0.5 < thr  is decided   *)
(* as  var < thr * thr  (both sides are non-negative).                      *)
(***************************************************************************)
EXTENDS Integers, Sequences, FiniteSets, TLC

----------------------------------------------------------------------------
(* Exact arithmetic standing for Python float arithmetic.                   *)

Abs(x) == IF x < 0 THEN -x ELSE x

RECURSIVE GCD(_, _)
GCD(a, b) == IF b = 0 THEN a ELSE GCD(b, a % b)

\* n/d in lowest terms with a positive denominator (d # 0).
Q(n, d) ==
    LET g == GCD(Abs(n), Abs(d))
        s == IF d < 0 THEN -1 ELSE 1
    IN  [n |-> s * (n \div g), d |-> s * (d \div g)]

I(k) == [n |-> k, d |-> 1]

RAdd(a, b) ==
    LET g == GCD(a.d, b.d)
    IN  Q(a.n * (b.d \div g) + b.n * (a.d \div g), (a.d \div g) * b.d)

RNeg(a) == [n |-> -a.n, d |-> a.d]

RSub(a, b) == RAdd(a, RNeg(b))

RMul(a, b) ==
    LET g1 == GCD(Abs(a.n), b.d)
        g2 == GCD(Abs(b.n), a.d)
    IN  Q((a.n \div g1) * (b.n \div g2), (a.d \div g2) * (b.d \div g1))

\* a / b, for b # 0
RDiv(a, b) == RMul(a, Q(b.d, b.n))

RLt(a, b) ==
    LET g == GCD(a.d, b.d)
    IN  a.n * (b.d \div g) < b.n * (a.d \div g)

RLe(a, b) == ~RLt(b, a)

RAbs(a) == [n |-> Abs(a.n), d |-> a.d]

RMax(a, b) == IF RLt(a, b) THEN b ELSE a

Max(a, b) == IF a < b THEN b ELSE a

Min(a, b) == IF a < b THEN a ELSE b

\* sum(s): the sum of s[lo..hi], and of all of s (exact addition is
\* associative, so the halves are added separately to keep evaluation shallow)
RECURSIVE RSumRange(_, _, _)
RSumRange(s, lo, hi) ==
    IF lo > hi THEN I(0)
    ELSE IF lo = hi THEN s[lo]
    ELSE RAdd(RSumRange(s, lo, (lo + hi) \div 2),
              RSumRange(s, (lo + hi) \div 2 + 1, hi))

RSum(s) == RSumRange(s, 1, Len(s))

\* sum(s) / len(s), for a non-empty s
Mean(s) == RDiv(RSum(s), I(Len(s)))

\* s with x inserted before the first element greater than x (s sorted)
RECURSIVE Insert(_, _)
Insert(x, s) ==
    IF s = <<>> THEN <<x>>
    ELSE IF RLe(x, s[1]) THEN <<x>> \o s
    ELSE <<s[1]>> \o Insert(x, Tail(s))

RECURSIVE Sorted(_)
Sorted(s) == IF s = <<>> THEN <<>> ELSE Insert(s[1], Sorted(Tail(s)))

\* Variant of the median that takes the middle element in arrival order.
MedianUnsorted(s) == s[(Len(s) + 1) \div 2]

\* statistics.median: the middle element of the sorted data, or the mean of
\* the two middle elements when their number is even (s non-empty).
Median(s) ==
    LET t == Sorted(s)
        k == Len(s)
    IN  IF k % 2 = 1 THEN t[(k + 1) \div 2]
        ELSE RDiv(RAdd(t[k \div 2], t[k \div 2 + 1]), I(2))

\* collections.deque(maxlen=cap).append(x): drop from the left when full
DequeAppend(q, x, cap) ==
    IF cap = 0 THEN <<>>
    ELSE IF Len(q) >= cap THEN SubSeq(q, Len(q) - cap + 2, Len(q)) \o <<x>>
    ELSE Append(q, x)

----------------------------------------------------------------------------
(* Naturals beyond TLC's 32-bit integers, as little-endian sequences of     *)
(* base-10000 limbs without leading zeros; used only to square and add the  *)
(* deviations of the stability computation exactly.                         *)

RECURSIVE BigCarry(_, _)
BigCarry(s, c) ==
    IF s = <<>>
    THEN IF c = 0 THEN <<>> ELSE <<c % 10000>> \o BigCarry(<<>>, c \div 10000)
    ELSE <<(s[1] + c) % 10000>> \o BigCarry(Tail(s), (s[1] + c) \div 10000)

RECURSIVE BigTrim(_)
BigTrim(s) ==
    IF s # <<>> /\ s[Len(s)] = 0 THEN BigTrim(SubSeq(s, 1, Len(s) - 1)) ELSE s

\* k >= 0
Big(k) == BigTrim(BigCarry(<<k>>, 0))

RECURSIVE BigZip(_, _)
BigZip(a, b) ==
    IF a = <<>> THEN b
    ELSE IF b = <<>> THEN a
    ELSE <<a[1] + b[1]>> \o BigZip(Tail(a), Tail(b))

BigAdd(a, b) == BigTrim(BigCarry(BigZip(a, b), 0))

\* a times one limb k (0 <= k < 10000)
BigScale(a, k) == BigTrim(BigCarry([i \in 1..Len(a) |-> a[i] * k], 0))

RECURSIVE BigMul(_, _)
BigMul(a, b) ==
    IF b = <<>> THEN <<>>
    ELSE BigAdd(BigScale(a, b[1]),
                LET r == BigMul(a, Tail(b)) IN IF r = <<>> THEN <<>> ELSE <<0>> \o r)

RECURSIVE BigLt(_, _)
BigLt(a, b) ==
    IF Len(a) # Len(b) THEN Len(a) < Len(b)
    ELSE IF a = <<>> THEN FALSE
    ELSE IF a[Len(a)] # b[Len(b)] THEN a[Len(a)] < b[Len(b)]
    ELSE BigLt(SubSeq(a, 1, Len(a) - 1), SubSeq(b, 1, Len(b) - 1))

RECURSIVE BigSum(_)
BigSum(s) == IF s = <<>> THEN <<>> ELSE BigAdd(s[1], BigSum(Tail(s)))

BigSq(k) == BigMul(Big(Abs(k)), Big(Abs(k)))

LCM(a, b) == (a \div GCD(a, b)) * b

RECURSIVE LCMDen(_)
LCMDen(s) == IF s = <<>> THEN 1 ELSE LCM(s[1].d, LCMDen(Tail(s)))

----------------------------------------------------------------------------
(* Program constants.                                                       *)

TareSamples == 10
CalSamples == 20
CalMinDelta == 10
SampleRateMax == 80
DataBits == 24
StableMinLen == 5

(* Bounds of the model.                                                     *)

\* A run starts with a budget and stops spending when it is used up: a
\* successful read_grams() costs 1, a change of the environment or an
\* update_config 2, a tare / zero / calibrate call 5.  MaxEffort is the budget
\* of the runs with requests (Spec), MaxReadEffort that of the runs of the
\* read path alone (SpecReads).
MaxEffort == 7
MaxReadEffort == 8

Cost(what) ==
    CASE what = "read" -> 1
      [] what = "env" -> 2
      [] what = "update" -> 2
      [] what = "call" -> 5

(* Inputs.                                                                  *)

RECURSIVE Pow2(_)
Pow2(k) == IF k = 0 THEN 1 ELSE 2 * Pow2(k - 1)

\* States of the environment: whether DOUT becomes ready within the read
\* timeout, the 24-bit pattern the converter shifts out (20, 0, -20), and the
\* current value of the synthetic waveform 100 + 10 sin(t/3) + 0.5 sin(7t).
AllHwStates ==
    { [ready |-> TRUE, bits |-> 20, syn |-> I(110)],
      [ready |-> TRUE, bits |-> 0, syn |-> I(90)],
      [ready |-> TRUE, bits |-> Pow2(DataBits) - 20, syn |-> I(90)],
      [ready |-> FALSE, bits |-> 0, syn |-> I(110)] }

KnownGrams == {I(5), I(40)}

\* models.Config restricted to the fields the pipeline reads; `display`
\* stands for the tuple of the eight serial/display settings.
BaseConfig ==
    [gpio_dout |-> 6, gpio_sck |-> 18, sample_rate |-> 2, median_window |-> 3,
     scale |-> I(1), offset |-> I(0), demo_mode |-> FALSE,
     display_enabled |-> FALSE, display |-> 0]

Configs ==
    { BaseConfig,
      [BaseConfig EXCEPT !.gpio_dout = 5, !.gpio_sck = 6],
      [BaseConfig EXCEPT !.demo_mode = TRUE],
      [BaseConfig EXCEPT !.scale = I(2), !.offset = I(10)],
      [BaseConfig EXCEPT !.sample_rate = 6, !.median_window = 2,
                         !.scale = I(2), !.offset = I(10)],
      [BaseConfig EXCEPT !.sample_rate = 0, !.median_window = 0],
      [BaseConfig EXCEPT !.display_enabled = TRUE, !.display = 1] }

----------------------------------------------------------------------------
(* HX711Reader: pure parts.                                                 *)

\* Variant of the constructor that takes the synthetic flag as configured.
NewReaderAsConfigured(c, mock) ==
    LET sr == Max(1, Min(SampleRateMax, c.sample_rate))
        mw == Max(1, c.median_window)
    IN  [dout |-> c.gpio_dout, sck |-> c.gpio_sck,
         sample_rate |-> sr, median_window |-> mw,
         scale |-> c.scale, offset |-> c.offset,
         demo_mode |-> c.demo_mode,
         raw_window |-> <<>>, raw_maxlen |-> mw,
         avg_window |-> <<>>, avg_maxlen |-> Max(1, sr)]

\* HX711Reader.__init__: the object's fields; raw_maxlen and avg_maxlen are
\* the maxlen of the two deques, fixed at construction.
NewReader(c, mock) ==
    LET sr == Max(1, Min(SampleRateMax, c.sample_rate))
        mw == Max(1, c.median_window)
    IN  [dout |-> c.gpio_dout, sck |-> c.gpio_sck,
         sample_rate |-> sr, median_window |-> mw,
         scale |-> c.scale, offset |-> c.offset,
         demo_mode |-> (c.demo_mode \/ mock),
         raw_window |-> <<>>, raw_maxlen |-> mw,
         avg_window |-> <<>>, avg_maxlen |-> Max(1, sr)]

\* Variant in which the pattern arrives least significant bit first.
BitLsbFirst(U, i) == (U \div Pow2(i - 1)) % 2

\* i-th bit on DOUT (i = 1 is the MSB) of the pattern U
Bit(U, i) == (U \div Pow2(DataBits - i)) % 2

\* for _ in range(24): count = (count << 1) | GPIO.input(dout)
RECURSIVE ShiftIn(_, _, _)
ShiftIn(count, U, i) ==
    IF i > DataBits THEN count ELSE ShiftIn(count * 2 + Bit(U, i), U, i + 1)

\* if count & 0x800000: count |= ~0xFFFFFF
SignExtend(count) ==
    IF (count \div Pow2(DataBits - 1)) % 2 = 1 THEN count - Pow2(DataBits) ELSE count

\* HX711Reader._read_raw on reader r, with the lines `pins` set up and the
\* environment h: the float returned, or the exception raised.
\* RPi.GPIO raises RuntimeError on a channel that is not set up.
ReadRaw(r, pins, h) ==
    IF r.demo_mode THEN [out |-> "ok", val |-> h.syn]
    ELSE IF ~({r.dout, r.sck} \subseteq pins) THEN [out |-> "RuntimeError", val |-> I(0)]
    ELSE IF ~h.ready THEN [out |-> "TimeoutError", val |-> I(0)]
    ELSE [out |-> "ok", val |-> I(SignExtend(ShiftIn(0, h.bits, 1)))]

\* Variant of read_grams that takes the median of the window padded with
\* zeros up to its capacity.
ReaderReadGramsPadded(r, raw) ==
    IF raw.out # "ok" THEN [reader |-> r, out |-> raw.out, ret |-> I(0)]
    ELSE
    LET rw    == DequeAppend(r.raw_window, raw.val, r.raw_maxlen)
        pad   == [i \in 1..r.raw_maxlen |-> IF i <= Len(rw) THEN rw[i] ELSE I(0)]
        grams == RMul(RSub(Median(pad), r.offset), r.scale)
        aw    == DequeAppend(r.avg_window, grams, r.avg_maxlen)
    IN  [reader |-> [r EXCEPT !.raw_window = rw, !.avg_window = aw],
         out |-> "ok", ret |-> Mean(aw)]

\* Variant of read_grams that appends before it checks the outcome of the read.
ReaderReadGramsAppendsOnFailure(r, raw) ==
    LET rw    == DequeAppend(r.raw_window, raw.val, r.raw_maxlen)
        med   == IF Len(rw) > 0 THEN Median(rw) ELSE raw.val
        grams == RMul(RSub(med, r.offset), r.scale)
        aw    == DequeAppend(r.avg_window, grams, r.avg_maxlen)
    IN  [reader |-> [r EXCEPT !.raw_window = rw, !.avg_window = aw],
         out |-> raw.out, ret |-> Mean(aw)]

\* HX711Reader.read_grams, raw being the outcome of its _read_raw():
\* the reader afterwards, the outcome, and the value returned.  An exception
\* of _read_raw propagates before anything is appended.
ReaderReadGrams(r, raw) ==
    IF raw.out # "ok" THEN [reader |-> r, out |-> raw.out, ret |-> I(0)]
    ELSE
    LET rw    == DequeAppend(r.raw_window, raw.val, r.raw_maxlen)
        med   == IF Len(rw) > 0 THEN Median(rw) ELSE raw.val
        grams == RMul(RSub(med, r.offset), r.scale)
        aw    == DequeAppend(r.avg_window, grams, r.avg_maxlen)
    IN  [reader |-> [r EXCEPT !.raw_window = rw, !.avg_window = aw],
         out |-> "ok", ret |-> Mean(aw)]

\* Variant of tare that takes the median of the reads instead of their mean.
ReaderTareMedian(r, vals) == [r EXCEPT !.offset = Median(vals)]

\* Variant of zero that resets the offset to 0 instead of re-baselining it.
ReaderZeroResets(r, vals) == [r EXCEPT !.offset = I(0)]

\* Variant of zero that also empties the two FIFOs.
ReaderZeroClears(r, vals) ==
    [r EXCEPT !.offset = Mean(vals), !.raw_window = <<>>, !.avg_window = <<>>]

\* HX711Reader.tare / HX711Reader.zero: self.offset = _read_raw_average(10),
\* vals being the reads _read_raw_average collected
ReadRawAverage(vals) == Mean(vals)

ReaderTare(r, vals) == [r EXCEPT !.offset = ReadRawAverage(vals)]

ReaderZero(r, vals) == [r EXCEPT !.offset = ReadRawAverage(vals)]

\* Variant of the guard that also rejects a delta of exactly 10.
CalRejectsInclusive(r, readings) ==
    RLe(RAbs(RSub(RDiv(RSum(readings), I(Len(readings))), r.offset)),
        I(CalMinDelta))

\* Variant of the commit that divides by the raw average alone.
CalScaleIgnoringOffset(r, known_grams, readings) ==
    RDiv(known_grams, RDiv(RSum(readings), I(Len(readings))))

\* HX711Reader.calibrate after the collection loop: the guard and the commit
CalRawAvg(readings) == RDiv(RSum(readings), I(Len(readings)))

CalRejects(r, readings) ==
    RLt(RAbs(RSub(CalRawAvg(readings), r.offset)), I(CalMinDelta))

CalScale(r, known_grams, readings) ==
    RDiv(known_grams, RSub(CalRawAvg(readings), r.offset))

----------------------------------------------------------------------------
(* AppContext: pure parts.                                                  *)

\* max(5, int(self.cfg.sample_rate))
HistoryCap(c) == Max(StableMinLen, c.sample_rate)

\* Variant of the trim that keeps the oldest values.
HistoryPushKeepsOldest(vals, g, cap) ==
    LET v == Append(vals, g)
    IN  IF Len(v) > cap THEN SubSeq(v, 1, cap) ELSE v

\* self._last_vals after append and trim
HistoryPush(vals, g, cap) ==
    LET v == Append(vals, g)
    IN  IF Len(v) > cap THEN SubSeq(v, Len(v) - cap + 1, Len(v)) ELSE v

\* Variant of the threshold that does not depend on the scale.
ThresholdIgnoringScale(scale) == RMax(Q(1, 2), I(5))

\* max(0.5, 5.0 / max(1, scale))
Threshold(scale) == RMax(Q(1, 2), RDiv(I(5), RMax(I(1), scale)))

\* var ** 0.5 < thr, with mean and var as in AppContext.read_grams:
\* var = (sum of dev^2) / n, decided as  sum(dev^2) * thr.d^2 < n * thr.n^2
\* over the common denominator D of the deviations.
StdBelow(vals, thr) ==
    LET n    == Len(vals)
        mean == RDiv(RSum(vals), I(n))
        dev  == [i \in 1..n |-> RSub(vals[i], mean)]
        D    == LCMDen(dev)
        sq   == BigSum([i \in 1..n |-> BigSq(dev[i].n * (D \div dev[i].d))])
    IN  BigLt(BigMul(sq, BigSq(thr.d)),
              BigMul(Big(n), BigMul(BigSq(D), BigSq(thr.n))))

\* Variant of the flag that is computed from the fourth value on.
StableFromFourth(vals, c) ==
    IF Len(vals) >= 4 THEN StdBelow(vals, Threshold(c.scale)) ELSE FALSE

Stable(vals, c) ==
    IF Len(vals) >= StableMinLen THEN StdBelow(vals, Threshold(c.scale)) ELSE FALSE

\* DisplayProcess.start / stop / update_config on the process handle d:
\* config is self.config, child the configuration the running process uses.
DisplayStart(d) ==
    IF d.alive THEN d
    ELSE [d EXCEPT !.queue = TRUE, !.stop_set = FALSE, !.alive = TRUE,
                   !.child = d.config]

DisplayStop(d) ==
    IF ~d.alive THEN d
    ELSE [d EXCEPT !.stop_set = TRUE, !.alive = FALSE, !.queue = FALSE]

DisplayUpdateConfig(d, c) ==
    IF d.queue /\ ~d.stop_set THEN [d EXCEPT !.child = c] ELSE d

----------------------------------------------------------------------------
(* State.                                                                   *)

VARIABLES
    gpio_is_mock,  \* gpio_mock.GPIO_IS_MOCK
    gpio,          \* the channels RPi.GPIO has set up
    hw,            \* environment: DOUT becomes ready, the bits shifted out,
                   \* the synthetic waveform's current value
    readers,       \* the HX711Reader objects constructed so far
    cur,           \* ctx.reader, an index into readers
    cfg,           \* ctx.cfg
    saved,         \* the persisted configuration (CONFIG_PATH)
    last_vals,     \* ctx._last_vals
    stable,        \* ctx.stable
    display,       \* ctx.display_process
    op,            \* the tare / zero / calibrate call in progress
    last,          \* the step taken last: operation, outcome, and the value
                   \* returned (the raw average of a rejected calibration,
                   \* the number of readings collected by one that timed out)
    nreads,        \* successful ctx.read_grams() calls since start
    budget,        \* effort the run may still spend (bounds the run)
    driver,        \* the _publisher task: "running", or "dead" once an
                   \* exception has ended it
    burst,         \* the execution contexts inside a clock-pulse sequence
    upd,           \* the update_config call in progress in its thread
    who,           \* the execution context that took the last step
    chip,          \* the converter: the channel and gain selected for its
                   \* next conversion by the pulses that followed the last
                   \* read-out ("A128" at power-up; _read_raw selects it
                   \* again after every read-out)
    mq             \* the tare or zero call that the MQTT client's thread is
                   \* making beside the calls of the other contexts

\* The part of the state that only concurrent execution contexts change.
conc == <<driver, burst, upd, who, mq>>

vars == <<gpio_is_mock, gpio, hw, readers, cur, cfg, saved, last_vals, stable,
          display, op, last, nreads, budget, driver, burst, upd, who, chip, mq>>

NoUpd == [pc |-> "idle", old |-> <<>>, new |-> <<>>]

NoMq == [kind |-> "none", pc |-> "idle", rd |-> 0, vals |-> <<>>]

NoOp ==
    [kind |-> "none", pc |-> "idle", rd |-> 0, vals |-> <<>>, known |-> I(0),
     ret |-> I(0)]

Event(o, out, val) == [op |-> o, out |-> out, val |-> val]

\* without real GPIO only the synthetic waveform is ever observed
HwStates(mock) ==
    IF mock THEN {h \in AllHwStates : h.ready /\ h.bits < Pow2(DataBits - 1)}
    ELSE AllHwStates

ReaderPins(r) == IF r.demo_mode THEN {} ELSE {r.dout, r.sck}

\* AppContext.__init__ (main.py), after load_config()
Start(effort) ==
    /\ gpio_is_mock \in BOOLEAN
    /\ cfg \in Configs
    /\ saved = cfg
    /\ readers = <<NewReader(cfg, gpio_is_mock)>>
    /\ cur = 1
    /\ gpio = ReaderPins(readers[1])
    /\ hw \in HwStates(gpio_is_mock)
    /\ last_vals = <<>>
    /\ stable = FALSE
    /\ display =
         LET d == [config |-> cfg.display, alive |-> FALSE, queue |-> FALSE,
                   stop_set |-> FALSE, child |-> cfg.display]
         IN  IF cfg.display_enabled THEN DisplayStart(d) ELSE d
    /\ op = NoOp
    /\ last = Event("init", "ok", I(0))
    /\ nreads = 0
    /\ budget = effort
    /\ driver = "running"
    /\ burst = {}
    /\ upd = NoUpd
    /\ who = "init"
    /\ chip = "A128"
    /\ mq = NoMq

----------------------------------------------------------------------------
(* Environment.                                                             *)

EnvChange ==
    /\ budget >= Cost("env")
    /\ \E h \in HwStates(gpio_is_mock) :
         /\ h # hw
         /\ hw' = h
    /\ budget' = budget - Cost("env")
    /\ last' = Event("env", "ok", I(0))
    /\ UNCHANGED <<gpio_is_mock, gpio, readers, cur, cfg, saved, last_vals,
                   stable, display, op, nreads>>

----------------------------------------------------------------------------
(* AppContext.read_grams: the periodic driver's step (and the reading       *)
(* handlers').                                                              *)

ReadGrams ==
    LET res == ReaderReadGrams(readers[cur], ReadRaw(readers[cur], gpio, hw))
        lv  == HistoryPush(last_vals, res.ret, HistoryCap(cfg))
    IN  /\ res.out = "ok" => budget >= Cost("read")
        /\ readers' = [readers EXCEPT ![cur] = res.reader]
        /\ last_vals' = IF res.out = "ok" THEN lv ELSE last_vals
        /\ stable' = IF res.out = "ok" THEN Stable(lv, cfg) ELSE stable
        /\ nreads' = IF res.out = "ok" THEN nreads + 1 ELSE nreads
        /\ budget' = IF res.out = "ok" THEN budget - Cost("read") ELSE budget
        /\ last' = Event("read_grams", res.out, res.ret)
        /\ UNCHANGED <<gpio_is_mock, gpio, hw, cur, cfg, saved, display, op>>

----------------------------------------------------------------------------
(* AppContext.tare / AppContext.zero, step by step: HX711Reader.tare binds  *)
(* the reader at the call (op.rd), _read_raw_average collects 10 raw reads, *)
(* the reader's offset is assigned, then ctx.cfg.offset, then the           *)
(* configuration is saved.                                                  *)

TareCall(kind) ==
    /\ op.kind = "none"
    /\ budget >= Cost("call")
    /\ op' = [NoOp EXCEPT !.kind = kind, !.pc = "avg", !.rd = cur]
    /\ budget' = budget - Cost("call")
    /\ last' = Event(kind, "call", I(0))
    /\ UNCHANGED <<gpio_is_mock, gpio, hw, readers, cur, cfg, saved, last_vals,
                   stable, display, nreads>>

\* Variant of the raw read that, when a read fails, assigns the average of
\* the reads collected so far.
RawAverageReadPartial ==
    /\ op.kind \in {"tare", "zero"}
    /\ op.pc = "avg"
    /\ Len(op.vals) < Max(1, TareSamples)
    /\ LET raw == ReadRaw(readers[op.rd], gpio, hw)
       IN  IF raw.out = "ok"
           THEN /\ op' = [op EXCEPT !.vals = Append(op.vals, raw.val)]
                /\ last' = Event(op.kind, "read", raw.val)
                /\ readers' = readers
           ELSE /\ op' = NoOp
                /\ last' = Event(op.kind, raw.out, I(0))
                /\ readers' = IF op.vals = <<>> THEN readers
                              ELSE [readers EXCEPT ![op.rd].offset = Mean(op.vals)]
    /\ UNCHANGED <<gpio_is_mock, gpio, hw, cur, cfg, saved, last_vals,
                   stable, display, nreads, budget>>

\* one _read_raw() of the list comprehension in _read_raw_average
RawAverageRead ==
    /\ op.kind \in {"tare", "zero"}
    /\ op.pc = "avg"
    /\ Len(op.vals) < Max(1, TareSamples)
    /\ LET raw == ReadRaw(readers[op.rd], gpio, hw)
       IN  IF raw.out = "ok"
           THEN /\ op' = [op EXCEPT !.vals = Append(op.vals, raw.val)]
                /\ last' = Event(op.kind, "read", raw.val)
           ELSE /\ op' = NoOp
                /\ last' = Event(op.kind, raw.out, I(0))
    /\ UNCHANGED <<gpio_is_mock, gpio, hw, readers, cur, cfg, saved, last_vals,
                   stable, display, nreads, budget>>

\* self.offset = self._read_raw_average(10)
OffsetAssign ==
    /\ op.kind \in {"tare", "zero"}
    /\ op.pc = "avg"
    /\ Len(op.vals) = Max(1, TareSamples)
    /\ readers' = [readers EXCEPT ![op.rd] =
                     IF op.kind = "tare" THEN ReaderTare(readers[op.rd], op.vals)
                     ELSE ReaderZero(readers[op.rd], op.vals)]
    /\ op' = [op EXCEPT !.pc = "cfg"]
    /\ last' = Event(op.kind, "assign", I(0))
    /\ UNCHANGED <<gpio_is_mock, gpio, hw, cur, cfg, saved, last_vals, stable,
                   display, nreads, budget>>

\* self.cfg.offset = self.reader.offset
CfgOffsetStore ==
    /\ op.kind \in {"tare", "zero"}
    /\ op.pc = "cfg"
    /\ cfg' = [cfg EXCEPT !.offset = readers[cur].offset]
    /\ op' = [op EXCEPT !.pc = "save"]
    /\ last' = Event(op.kind, "cfg", I(0))
    /\ UNCHANGED <<gpio_is_mock, gpio, hw, readers, cur, saved, last_vals,
                   stable, display, nreads, budget>>

\* self.save_config(), which ends the tare, zero or calibrate request
SaveConfig ==
    /\ op.pc = "save"
    /\ saved' = cfg
    /\ last' = Event(op.kind, "ok", op.ret)
    /\ op' = NoOp
    /\ UNCHANGED <<gpio_is_mock, gpio, hw, readers, cur, cfg, last_vals, stable,
                   display, nreads, budget>>

----------------------------------------------------------------------------
(* AppContext.calibrate, step by step: HX711Reader.calibrate binds the      *)
(* reader at the call; in demo mode it sets scale = 1.0 at once; otherwise  *)
(* it collects 20 raw reads, retrying a read that times out and raising     *)
(* TimeoutError once timeout_sec of wall-clock time have elapsed (the clock *)
(* is the environment's: the check may fire at any iteration); then it      *)
(* applies the guard and                                                    *)
(* assigns scale; ctx.cfg.scale is assigned next and the configuration is  *)
(* saved by the caller.                                                     *)

\* Variant of the call that collects raw reads in synthetic mode as well.
CalibrateCallCollects(known_grams) ==
    /\ op.kind = "none"
    /\ budget >= Cost("call")
    /\ budget' = budget - Cost("call")
    /\ readers' = readers
    /\ op' = [NoOp EXCEPT !.kind = "calibrate", !.pc = "collect",
                          !.rd = cur, !.known = known_grams]
    /\ last' = Event("calibrate", "call", I(0))
    /\ UNCHANGED <<gpio_is_mock, gpio, hw, cur, cfg, saved, last_vals, stable,
                   display, nreads>>

CalibrateCall(known_grams) ==
    /\ op.kind = "none"
    /\ budget >= Cost("call")
    /\ budget' = budget - Cost("call")
    /\ IF readers[cur].demo_mode
       THEN /\ readers' = [readers EXCEPT ![cur].scale = I(1)]
            /\ op' = [NoOp EXCEPT !.kind = "calibrate", !.pc = "cfg", !.rd = cur,
                                  !.known = known_grams, !.ret = I(1)]
            /\ last' = Event("calibrate", "assign", I(1))
       ELSE /\ readers' = readers
            /\ op' = [NoOp EXCEPT !.kind = "calibrate", !.pc = "collect",
                                  !.rd = cur, !.known = known_grams]
            /\ last' = Event("calibrate", "call", I(0))
    /\ UNCHANGED <<gpio_is_mock, gpio, hw, cur, cfg, saved, last_vals, stable,
                   display, nreads>>

\* if time.time() - start_time > timeout_sec: raise TimeoutError
\* (the wall clock may have passed the limit at any iteration)
CalibrateTimeout ==
    /\ op.kind = "calibrate"
    /\ op.pc = "collect"
    /\ Len(op.vals) < CalSamples
    /\ op' = NoOp
    /\ last' = Event("calibrate", "CalibrationTimeout", I(Len(op.vals)))
    /\ UNCHANGED <<gpio_is_mock, gpio, hw, readers, cur, cfg, saved, last_vals,
                   stable, display, nreads, budget>>

\* Variant of the read without the retry: a TimeoutError ends the call.
CalibrateReadAborts ==
    /\ op.kind = "calibrate"
    /\ op.pc = "collect"
    /\ Len(op.vals) < CalSamples
    /\ LET raw == ReadRaw(readers[op.rd], gpio, hw)
       IN  IF raw.out = "ok"
           THEN /\ op' = [op EXCEPT !.vals = Append(op.vals, raw.val)]
                /\ last' = Event("calibrate", "read", raw.val)
           ELSE /\ op' = NoOp
                /\ last' = Event("calibrate", raw.out, I(0))
    /\ UNCHANGED <<gpio_is_mock, gpio, hw, readers, cur, cfg, saved, last_vals,
                   stable, display, nreads, budget>>

\* raw = self._read_raw(); raw_readings.append(raw) / except TimeoutError: continue
CalibrateRead ==
    /\ op.kind = "calibrate"
    /\ op.pc = "collect"
    /\ Len(op.vals) < CalSamples
    /\ LET raw == ReadRaw(readers[op.rd], gpio, hw)
       IN  IF raw.out = "ok"
           THEN /\ op' = [op EXCEPT !.vals = Append(op.vals, raw.val)]
                /\ last' = Event("calibrate", "read", raw.val)
           ELSE IF raw.out = "TimeoutError"
           THEN /\ op' = op
                /\ last' = Event("calibrate", "retry", I(0))
           ELSE /\ op' = NoOp
                /\ last' = Event("calibrate", raw.out, I(0))
    /\ UNCHANGED <<gpio_is_mock, gpio, hw, readers, cur, cfg, saved, last_vals,
                   stable, display, nreads, budget>>

\* Variant of the last step that writes scale before it applies the guard.
CalibrateFinishCommitsFirst ==
    /\ op.kind = "calibrate"
    /\ op.pc = "collect"
    /\ Len(op.vals) = CalSamples
    /\ IF CalRejects(readers[op.rd], op.vals)
       THEN /\ op' = NoOp
            /\ readers' = [readers EXCEPT ![op.rd].scale = op.known]
            /\ last' = Event("calibrate", "CalibrationInsufficientDelta",
                             CalRawAvg(op.vals))
       ELSE LET sc == CalScale(readers[op.rd], op.known, op.vals)
            IN  /\ readers' = [readers EXCEPT ![op.rd].scale = sc]
                /\ op' = [op EXCEPT !.pc = "cfg", !.ret = sc]
                /\ last' = Event("calibrate", "assign", sc)
    /\ UNCHANGED <<gpio_is_mock, gpio, hw, cur, cfg, saved, last_vals, stable,
                   display, nreads, budget>>

\* raw_avg, the near-zero guard, and self.scale = known_grams / (raw_avg - offset)
CalibrateFinish ==
    /\ op.kind = "calibrate"
    /\ op.pc = "collect"
    /\ Len(op.vals) = CalSamples
    /\ IF CalRejects(readers[op.rd], op.vals)
       THEN /\ op' = NoOp
            /\ readers' = readers
            /\ last' = Event("calibrate", "CalibrationInsufficientDelta",
                             CalRawAvg(op.vals))
       ELSE LET sc == CalScale(readers[op.rd], op.known, op.vals)
            IN  /\ readers' = [readers EXCEPT ![op.rd].scale = sc]
                /\ op' = [op EXCEPT !.pc = "cfg", !.ret = sc]
                /\ last' = Event("calibrate", "assign", sc)
    /\ UNCHANGED <<gpio_is_mock, gpio, hw, cur, cfg, saved, last_vals, stable,
                   display, nreads, budget>>

\* self.cfg.scale = scale
CfgScaleStore ==
    /\ op.kind = "calibrate"
    /\ op.pc = "cfg"
    /\ cfg' = [cfg EXCEPT !.scale = op.ret]
    /\ op' = [op EXCEPT !.pc = "save"]
    /\ last' = Event("calibrate", "cfg", op.ret)
    /\ UNCHANGED <<gpio_is_mock, gpio, hw, readers, cur, saved, last_vals,
                   stable, display, nreads, budget>>

----------------------------------------------------------------------------
(* AppContext.update_config.                                                *)

\* The reader objects still referenced once ctx.reader is rebound: the one a
\* call in progress is bound to, if any (the others are garbage).
Live(rs) == IF op.kind = "none" THEN <<>> ELSE <<rs[op.rd]>>

\* Variant of the comparison that leaves the pin assignment out.
ReaderFieldsDifferNoPins(old, new) ==
    \/ old.sample_rate # new.sample_rate
    \/ old.median_window # new.median_window
    \/ old.scale # new.scale
    \/ old.offset # new.offset
    \/ old.demo_mode # new.demo_mode

ReaderFieldsDiffer(old, new) ==
    \/ old.gpio_dout # new.gpio_dout
    \/ old.gpio_sck # new.gpio_sck
    \/ old.sample_rate # new.sample_rate
    \/ old.median_window # new.median_window
    \/ old.scale # new.scale
    \/ old.offset # new.offset
    \/ old.demo_mode # new.demo_mode

\* the else branch: the four assignments onto the existing reader
HotPatch(r, new) ==
    [r EXCEPT !.scale = new.scale, !.offset = new.offset,
              !.sample_rate = new.sample_rate,
              !.median_window = new.median_window]

\* the display part of update_config
DisplayUpdate(d, old, new) ==
    IF old.display # new.display \/ (~old.display_enabled /\ new.display_enabled)
    THEN LET d1 == IF old.display_enabled THEN DisplayStop(d) ELSE d
             d2 == DisplayUpdateConfig(d1, new.display)
         IN  IF new.display_enabled THEN DisplayStart(d2) ELSE d2
    ELSE d

UpdateConfig(new_cfg) ==
    /\ budget >= Cost("update")
    /\ budget' = budget - Cost("update")
    /\ cfg' = new_cfg
    /\ IF ReaderFieldsDiffer(cfg, new_cfg)
       THEN LET fresh == NewReader(new_cfg, gpio_is_mock)
            IN  /\ readers' = Append(Live(readers), fresh)
                /\ cur' = Len(Live(readers)) + 1
                /\ gpio' = (gpio \ ReaderPins(readers[cur])) \cup ReaderPins(fresh)
       ELSE /\ readers' = [readers EXCEPT ![cur] = HotPatch(readers[cur], new_cfg)]
            /\ cur' = cur
            /\ gpio' = gpio
    /\ saved' = new_cfg
    /\ display' = DisplayUpdate(display, cfg, new_cfg)
    /\ last' = Event("update_config", "ok", I(0))
    /\ UNCHANGED <<gpio_is_mock, hw, last_vals, stable, op, nreads>>

----------------------------------------------------------------------------

\* No request is in progress.
Idle == op.kind = "none"

\* Requests served one at a time: read_grams and update_config run between
\* tare / zero / calibrate requests, while the environment changes at any time.
Next ==
    \/ EnvChange /\ UNCHANGED <<conc, chip>>
    \/ Idle /\ ReadGrams /\ UNCHANGED <<conc, chip>>
    \/ TareCall("tare") /\ UNCHANGED <<conc, chip>>
    \/ TareCall("zero") /\ UNCHANGED <<conc, chip>>
    \/ RawAverageRead /\ UNCHANGED <<conc, chip>>
    \/ OffsetAssign /\ UNCHANGED <<conc, chip>>
    \/ CfgOffsetStore /\ UNCHANGED <<conc, chip>>
    \/ SaveConfig /\ UNCHANGED <<conc, chip>>
    \/ (\E k \in KnownGrams : CalibrateCall(k)) /\ UNCHANGED <<conc, chip>>
    \/ CalibrateTimeout /\ UNCHANGED <<conc, chip>>
    \/ CalibrateRead /\ UNCHANGED <<conc, chip>>
    \/ CalibrateFinish /\ UNCHANGED <<conc, chip>>
    \/ CfgScaleStore /\ UNCHANGED <<conc, chip>>
    \/ Idle /\ (\E c \in Configs : UpdateConfig(c)) /\ UNCHANGED <<conc, chip>>

Init == Start(MaxEffort)

Spec == Init /\ [][Next]_vars

\* The read path alone: no tare / zero / calibrate request is made.
InitReads == Start(MaxReadEffort)

NextReads ==
    \/ EnvChange /\ UNCHANGED <<conc, chip>>
    \/ ReadGrams /\ UNCHANGED <<conc, chip>>
    \/ (\E c \in Configs : UpdateConfig(c)) /\ UNCHANGED <<conc, chip>>

SpecReads == InitReads /\ [][NextReads]_vars

----------------------------------------------------------------------------
(* Concurrent execution contexts.  The event loop runs the _publisher task  *)
(* ("driver") and the reading handlers get_reading / ws_weight ("handler"), *)
(* one at a time.  A tare / zero / calibrate call requested over MQTT runs  *)
(* in the MQTT client's thread, a calibrate requested over HTTP in an       *)
(* executor thread ("worker").  set_config runs update_config in a thread   *)
(* of its own ("config").  No lock is taken anywhere.                       *)

MaxConcEffort == 6

InitConc == Start(MaxConcEffort)

\* _read_raw on reader r finds DOUT low and clocks the 24 bits out
WillPulse(r) == ~r.demo_mode /\ {r.dout, r.sck} \subseteq gpio /\ hw.ready

\* The worker's call is about to call _read_raw
WorkerReads ==
    \/ op.kind \in {"tare", "zero"} /\ op.pc = "avg" /\ Len(op.vals) < Max(1, TareSamples)
    \/ op.kind = "calibrate" /\ op.pc = "collect" /\ Len(op.vals) < CalSamples

\* The environment; the converter holds its output while it is clocked out.
ConcEnv ==
    /\ burst = {}
    /\ EnvChange
    /\ who' = "env"
    /\ chip' = chip
    /\ mq' = mq
    /\ UNCHANGED <<driver, burst, upd>>

\* A context enters the clock-pulse sequence of _read_raw (hx711.py:134-145).
PulseBegin(ctx) ==
    /\ ctx \notin burst
    /\ CASE ctx = "driver"  -> /\ driver = "running"
                               /\ "handler" \notin burst
                               /\ WillPulse(readers[cur])
         [] ctx = "handler" -> /\ "driver" \notin burst
                               /\ WillPulse(readers[cur])
         [] ctx = "worker"  -> /\ WorkerReads
                               /\ WillPulse(readers[op.rd])
    /\ burst' = burst \cup {ctx}
    /\ who' = ctx
    /\ chip' = chip
    /\ mq' = mq
    /\ last' = Event("pulses", "begin", I(0))
    /\ UNCHANGED <<gpio_is_mock, gpio, hw, readers, cur, cfg, saved, last_vals,
                   stable, display, op, nreads, budget, driver, upd>>

\* One iteration of _publisher (main.py:225-227): read_grams() is not
\* guarded, so an exception ends the task.
DriverStep ==
    /\ driver = "running"
    /\ "handler" \notin burst
    /\ WillPulse(readers[cur]) => "driver" \in burst
    /\ ReadGrams
    /\ driver' = IF last'.out = "ok" THEN "running" ELSE "dead"
    /\ burst' = burst \ {"driver"}
    /\ who' = "driver"
    /\ chip' = chip
    /\ mq' = mq
    /\ upd' = upd

\* get_reading / the ws_weight loop (api_routes.py): ctx.read_grams() on the
\* event loop; an exception ends the request only.
GetReading ==
    /\ "driver" \notin burst
    /\ WillPulse(readers[cur]) => "handler" \in burst
    /\ ReadGrams
    /\ burst' = burst \ {"handler"}
    /\ who' = "handler"
    /\ chip' = chip
    /\ mq' = mq
    /\ UNCHANGED <<driver, upd>>

\* A step of the worker's call that performs a raw read
WorkerRead(step) ==
    /\ WorkerReads
    /\ WillPulse(readers[op.rd]) => "worker" \in burst
    /\ step
    /\ burst' = burst \ {"worker"}
    /\ who' = "worker"
    /\ chip' = chip
    /\ mq' = mq
    /\ UNCHANGED <<driver, upd>>

\* A step of the worker's call that performs no raw read
WorkerStep(step) ==
    /\ "worker" \notin burst
    /\ step
    /\ who' = "worker"
    /\ chip' = chip
    /\ mq' = mq
    /\ UNCHANGED <<driver, burst, upd>>

\* set_config (api_routes.py:159-177) persists the new configuration and
\* starts update_config in a thread; there old_cfg = self.cfg and
\* self.cfg = new_cfg come first (main.py:106-108).
UpdateBegin(new_cfg) ==
    /\ upd.pc = "idle"
    /\ budget >= Cost("update")
    /\ budget' = budget - Cost("update")
    /\ saved' = new_cfg
    /\ cfg' = new_cfg
    /\ upd' = [pc |-> "reader", old |-> cfg, new |-> new_cfg]
    /\ who' = "config"
    /\ chip' = chip
    /\ mq' = mq
    /\ last' = Event("update_config", "begin", I(0))
    /\ UNCHANGED <<gpio_is_mock, gpio, hw, readers, cur, last_vals, stable,
                   display, op, nreads, driver, burst>>

\* Variant of the step that leaves the lines of the old reader set up.
UpdateReaderKeepsLines ==
    /\ upd.pc = "reader"
    /\ burst \cap {"driver", "handler"} = {}
    /\ IF ReaderFieldsDiffer(upd.old, cfg)
       THEN /\ gpio' = gpio
            /\ readers' = readers
            /\ upd' = [upd EXCEPT !.pc = "construct"]
            /\ last' = Event("update_config", "closed", I(0))
       ELSE /\ readers' = [readers EXCEPT ![cur] = HotPatch(readers[cur], cfg)]
            /\ gpio' = gpio
            /\ upd' = [upd EXCEPT !.pc = "rest"]
            /\ last' = Event("update_config", "patched", I(0))
    /\ who' = "config"
    /\ chip' = chip
    /\ mq' = mq
    /\ UNCHANGED <<gpio_is_mock, hw, cur, cfg, saved, last_vals, stable,
                   display, op, nreads, budget, driver, burst>>

\* The comparison, then either self.reader.close() (main.py:132-133) or
\* (new_cfg is the object self.cfg was bound to at the start, so what
\* a tare, zero or calibrate stores in self.cfg meanwhile is seen here)
\* the four assignments of the else branch (main.py:142-146).  A pulse
\* sequence of the event loop is not split by this step.
UpdateReader ==
    /\ upd.pc = "reader"
    /\ burst \cap {"driver", "handler"} = {}
    /\ IF ReaderFieldsDiffer(upd.old, cfg)
       THEN /\ gpio' = gpio \ ReaderPins(readers[cur])
            /\ readers' = readers
            /\ upd' = [upd EXCEPT !.pc = "construct"]
            /\ last' = Event("update_config", "closed", I(0))
       ELSE /\ readers' = [readers EXCEPT ![cur] = HotPatch(readers[cur], cfg)]
            /\ gpio' = gpio
            /\ upd' = [upd EXCEPT !.pc = "rest"]
            /\ last' = Event("update_config", "patched", I(0))
    /\ who' = "config"
    /\ chip' = chip
    /\ mq' = mq
    /\ UNCHANGED <<gpio_is_mock, hw, cur, cfg, saved, last_vals, stable,
                   display, op, nreads, budget, driver, burst>>

\* self.reader = HX711Reader(...) (main.py:134-141): the closed reader stays
\* referenced by a call in progress on it only.
UpdateConstruct ==
    /\ upd.pc = "construct"
    /\ burst \cap {"driver", "handler"} = {}
    /\ LET fresh == NewReader(cfg, gpio_is_mock)
       IN  /\ readers' = Append(Live(readers), fresh)
           /\ cur' = Len(Live(readers)) + 1
           /\ gpio' = gpio \cup ReaderPins(fresh)
    /\ op' = IF op.kind = "none" THEN op ELSE [op EXCEPT !.rd = 1]
    /\ upd' = [upd EXCEPT !.pc = "rest"]
    /\ who' = "config"
    /\ chip' = chip
    /\ mq' = mq
    /\ last' = Event("update_config", "recreated", I(0))
    /\ UNCHANGED <<gpio_is_mock, hw, cfg, saved, last_vals, stable, display,
                   nreads, budget, driver, burst>>

\* The rest of update_config: the display part and save_config(self.cfg).
UpdateRest ==
    /\ upd.pc = "rest"
    /\ display' = DisplayUpdate(display, upd.old, cfg)
    /\ saved' = cfg
    /\ upd' = NoUpd
    /\ who' = "config"
    /\ chip' = chip
    /\ mq' = mq
    /\ last' = Event("update_config", "ok", I(0))
    /\ UNCHANGED <<gpio_is_mock, gpio, hw, readers, cur, cfg, last_vals, stable,
                   op, nreads, budget, driver, burst>>

NextConc ==
    \/ ConcEnv
    \/ \E ctx \in {"driver", "handler", "worker"} : PulseBegin(ctx)
    \/ DriverStep
    \/ GetReading
    \/ WorkerStep(TareCall("tare"))
    \/ WorkerStep(TareCall("zero"))
    \/ WorkerRead(RawAverageRead)
    \/ WorkerStep(OffsetAssign)
    \/ WorkerStep(CfgOffsetStore)
    \/ WorkerStep(SaveConfig)
    \/ \E k \in KnownGrams : WorkerStep(CalibrateCall(k))
    \/ WorkerStep(CalibrateTimeout)
    \/ WorkerRead(CalibrateRead)
    \/ WorkerStep(CalibrateFinish)
    \/ WorkerStep(CfgScaleStore)
    \/ \E c \in Configs : UpdateBegin(c)
    \/ UpdateReader
    \/ UpdateConstruct
    \/ UpdateRest

SpecConc == InitConc /\ [][NextConc]_vars

----------------------------------------------------------------------------
(* The periodic driver beside one calibrate call, for ever: the driver's    *)
(* reads are not counted against the effort bound.                          *)

MaxFairEffort == 5
MaxFairReads == 5

InitFair == Start(MaxFairEffort)

\* AppContext.read_grams as in ReadGrams, not metered; nreads saturates
PeriodicRead ==
    LET res == ReaderReadGrams(readers[cur], ReadRaw(readers[cur], gpio, hw))
        lv  == HistoryPush(last_vals, res.ret, HistoryCap(cfg))
    IN  /\ readers' = [readers EXCEPT ![cur] = res.reader]
        /\ last_vals' = IF res.out = "ok" THEN lv ELSE last_vals
        /\ stable' = IF res.out = "ok" THEN Stable(lv, cfg) ELSE stable
        /\ nreads' = IF res.out = "ok" THEN Min(nreads + 1, MaxFairReads) ELSE nreads
        /\ last' = Event("read_grams", res.out, res.ret)
        /\ UNCHANGED <<gpio_is_mock, gpio, hw, cur, cfg, saved, display, op, budget>>

\* One iteration of _publisher, as DriverStep
FairDriverStep ==
    /\ driver = "running"
    /\ WillPulse(readers[cur]) => "driver" \in burst
    /\ PeriodicRead
    /\ driver' = IF last'.out = "ok" THEN "running" ELSE "dead"
    /\ burst' = burst \ {"driver"}
    /\ who' = "driver"
    /\ chip' = chip
    /\ mq' = mq
    /\ upd' = upd

\* What the publisher task does next
DriverAct == PulseBegin("driver") \/ FairDriverStep

\* What the thread that runs calibrate does next
CalibrateAct ==
    \/ PulseBegin("worker")
    \/ WorkerStep(CalibrateTimeout)
    \/ WorkerRead(CalibrateRead)
    \/ WorkerStep(CalibrateFinish)
    \/ WorkerStep(CfgScaleStore)
    \/ WorkerStep(SaveConfig)

NextFair ==
    \/ ConcEnv
    \/ DriverAct
    \/ \E k \in KnownGrams : WorkerStep(CalibrateCall(k))
    \/ CalibrateAct

\* Enabledness of the two threads' next steps, written out: a calibrate call
\* in progress always has a next step (a read, the time check, the last step
\* or a store), and the publisher task has one while it lives (a step taken
\* right after its own last step may change nothing).
CalibrateCanStep == op.kind = "calibrate"

DriverCanStep == driver = "running" /\ who # "driver"

\* The wall clock passes calibrate's limit if the collection goes on; the
\* thread that runs calibrate keeps running; the event loop keeps scheduling
\* the publisher task while it lives (weak fairness of CalibrateAct and of
\* DriverAct, with the enabledness predicates above).
SpecFair ==
    /\ InitFair
    /\ [][NextFair]_vars
    /\ WF_vars(WorkerStep(CalibrateTimeout))
    /\ ([]<>~CalibrateCanStep \/ []<><<CalibrateAct>>_vars)
    /\ ([]<>~DriverCanStep \/ []<><<DriverAct>>_vars)

----------------------------------------------------------------------------
(* HX711Reader.close and the diagnostic mode reads, applied to ctx.reader   *)
(* between reads and configuration updates.                                 *)

MaxServiceEffort == 3
MaxCloses == 3

\* What the data line delivers to one 24-bit read, and the synthetic values
\* int(100000 + 5000 * sin(t / 2))
BitPatterns == {Pow2(DataBits - 1) - 1, Pow2(DataBits - 1), Pow2(DataBits) - 1}

SynRaw == {95000, 105000}

\* Variant of close() that lets the GPIO library's complaint about lines
\* that are not set up escape.
ReaderCloseStrict(r, pins) ==
    IF ~r.demo_mode /\ ~({r.dout, r.sck} \subseteq pins)
    THEN [out |-> "RuntimeError", pins |-> pins]
    ELSE [out |-> "ok", pins |-> pins \ ReaderPins(r)]

\* close(): GPIO.cleanup([dout, sck]) in hardware mode, any exception
\* swallowed; nothing in synthetic mode
ReaderClose(r, pins) == [out |-> "ok", pins |-> pins \ ReaderPins(r)]

\* _MODE_PULSES and its default: the pulses that follow a read-out
ModePulses(mode) ==
    CASE mode = "A128" -> 1
      [] mode = "B32" -> 2
      [] mode = "A64" -> 3
      [] OTHER -> 1

\* The converter's next conversion after a read-out followed by n pulses
\* (25, 26 or 27 pulses in all)
Selected(n) ==
    CASE n = 1 -> "A128"
      [] n = 2 -> "B32"
      [] OTHER -> "A64"

\* Variant of the read that leaves the sign extension out.
ReadRawWithNextUnsigned(r, pins, bits, syn, next_pulses, sel) ==
    IF r.demo_mode
    THEN [out |-> "ok", val |-> syn, conv |-> "none", sel |-> sel, pulses |-> 0]
    ELSE IF ~({r.dout, r.sck} \subseteq pins)
    THEN [out |-> "RuntimeError", val |-> 0, conv |-> "none", sel |-> sel,
          pulses |-> 0]
    ELSE [out |-> "ok", val |-> ShiftIn(0, bits, 1), conv |-> sel,
          sel |-> Selected(Max(1, Min(3, next_pulses))),
          pulses |-> DataBits + Max(1, Min(3, next_pulses))]

\* _read_raw_with_next: the synthetic value, or 24 bits shifted in and
\* sign-extended, as an int.  The wait for DOUT ends with `break` after
\* 0.1 s, so the bits are clocked out whether or not DOUT went low: `bits`
\* is what the line delivers then.  conv is the channel and gain of the
\* conversion read out (sel, selected by the read-out before), and the
\* next_pulses pulses select the next one.
ReadRawWithNext(r, pins, bits, syn, next_pulses, sel) ==
    IF r.demo_mode
    THEN [out |-> "ok", val |-> syn, conv |-> "none", sel |-> sel, pulses |-> 0]
    ELSE IF ~({r.dout, r.sck} \subseteq pins)
    THEN [out |-> "RuntimeError", val |-> 0, conv |-> "none", sel |-> sel,
          pulses |-> 0]
    ELSE [out |-> "ok", val |-> SignExtend(ShiftIn(0, bits, 1)), conv |-> sel,
          sel |-> Selected(Max(1, Min(3, next_pulses))),
          pulses |-> DataBits + Max(1, Min(3, next_pulses))]

\* Variant of read_raw_mode without the priming read.
ReadRawModeUnprimed(r, pins, prime, bits, syn, mode, sel) ==
    LET got == ReadRawWithNext(r, pins, bits, syn, ModePulses(mode), sel)
    IN  [out |-> got.out, val |-> got.val, conv |-> got.conv, sel |-> got.sel,
         pulses |-> got.pulses, reads |-> 1]

\* read_raw_mode: a priming read, discarded, then the read that is returned,
\* each followed by the pulses of the requested mode
ReadRawMode(r, pins, prime, bits, syn, mode, sel) ==
    LET first == ReadRawWithNext(r, pins, prime, syn, ModePulses(mode), sel)
        got   == ReadRawWithNext(r, pins, bits, syn, ModePulses(mode), first.sel)
    IN  IF first.out # "ok"
        THEN [out |-> first.out, val |-> 0, conv |-> "none", sel |-> first.sel,
              pulses |-> first.pulses, reads |-> 1]
        ELSE [out |-> got.out, val |-> got.val, conv |-> got.conv, sel |-> got.sel,
              pulses |-> first.pulses + got.pulses, reads |-> 2]

\* Variant of the sweep that reads A128 first and A64 last.
ReadRawAllModesA64Last(r, pins, prime, bits, syn, sel) ==
    LET a128 == ReadRawMode(r, pins, prime, bits[3], syn[3], "A128", sel)
        b32  == ReadRawMode(r, pins, prime, bits[1], syn[1], "B32", a128.sel)
        a64  == ReadRawMode(r, pins, prime, bits[2], syn[2], "A64", b32.sel)
    IN  IF a128.out # "ok" THEN [out |-> a128.out, val |-> <<>>, sel |-> a128.sel]
        ELSE IF b32.out # "ok" THEN [out |-> b32.out, val |-> <<>>, sel |-> b32.sel]
        ELSE IF a64.out # "ok" THEN [out |-> a64.out, val |-> <<>>, sel |-> a64.sel]
        ELSE [out |-> "ok",
              val |-> [B32 |-> b32.val, A64 |-> a64.val, A128 |-> a128.val],
              sel |-> a64.sel]

\* read_raw_all_modes: the dict of the three mode reads, in the order
\* B32, A64, A128
ReadRawAllModes(r, pins, prime, bits, syn, sel) ==
    LET b32  == ReadRawMode(r, pins, prime, bits[1], syn[1], "B32", sel)
        a64  == ReadRawMode(r, pins, prime, bits[2], syn[2], "A64", b32.sel)
        a128 == ReadRawMode(r, pins, prime, bits[3], syn[3], "A128", a64.sel)
    IN  IF b32.out # "ok" THEN [out |-> b32.out, val |-> <<>>, sel |-> b32.sel]
        ELSE IF a64.out # "ok" THEN [out |-> a64.out, val |-> <<>>, sel |-> a64.sel]
        ELSE IF a128.out # "ok" THEN [out |-> a128.out, val |-> <<>>, sel |-> a128.sel]
        ELSE [out |-> "ok",
              val |-> [B32 |-> b32.val, A64 |-> a64.val, A128 |-> a128.val],
              sel |-> a128.sel]

\* The converter's selection after _read_raw on reader r: its 25th pulse
\* selects A128 when the 24 bits have been clocked out
SelectedAfterRead(r, pins, h, sel) ==
    IF ~r.demo_mode /\ ReadRaw(r, pins, h).out = "ok" THEN Selected(1) ELSE sel

InitService == Start(MaxServiceEffort)

\* self.reader.close() as AppContext.stop calls it, any number of times;
\* the event counts the calls made in a row.
CloseCall ==
    LET n   == IF last.op = "close" THEN last.val.n + 1 ELSE 1
        res == ReaderClose(readers[cur], gpio)
    IN  /\ n <= MaxCloses
        /\ gpio' = res.pins
        /\ last' = Event("close", res.out, I(n))
        /\ UNCHANGED <<gpio_is_mock, hw, readers, cur, cfg, saved, last_vals,
                       stable, display, op, nreads, budget>>

\* GET /api/debug/raw: ctx.reader.read_raw_all_modes(); an exception gives
\* status 500.  The request changes nothing, so a request that follows
\* another one at once is left out.
DebugRaw ==
    /\ last.op # "debug_raw"
    /\ \E bits \in IF readers[cur].demo_mode THEN {<<0, 0, 0>>}
                    ELSE BitPatterns \X BitPatterns \X BitPatterns,
          syn  \in IF readers[cur].demo_mode THEN SynRaw \X SynRaw \X SynRaw
                    ELSE {<<0, 0, 0>>} :
         LET res == ReadRawAllModes(readers[cur], gpio, hw.bits, bits, syn, chip)
         IN  /\ last' = Event("debug_raw", res.out, res.val)
             /\ chip' = res.sel
             /\ UNCHANGED <<gpio_is_mock, gpio, hw, readers, cur, cfg, saved,
                            last_vals, stable, display, op, nreads, budget>>

\* ctx.read_grams() with its effect on the converter
ReadGramsSelecting ==
    /\ ReadGrams
    /\ chip' = SelectedAfterRead(readers[cur], gpio, hw, chip)

NextService ==
    \/ EnvChange /\ UNCHANGED <<conc, chip>>
    \/ ReadGramsSelecting /\ UNCHANGED conc
    \/ (\E c \in Configs : UpdateConfig(c)) /\ UNCHANGED <<conc, chip>>
    \/ CloseCall /\ UNCHANGED <<conc, chip>>
    \/ DebugRaw /\ UNCHANGED conc

SpecService == InitService /\ [][NextService]_vars

-----------------------------------------------------------------------------
(* update_config step by step beside the reading handlers, with a           *)
(* construction of the new reader that may fail: in hardware mode           *)
(* HX711Reader.__init__ calls GPIO.setmode / GPIO.setup / GPIO.output, which *)
(* raise on a channel the library refuses.                                  *)

MaxRecreateEffort == 5

InitRecreate == Start(MaxRecreateEffort)

\* self.reader = HX711Reader(...) raises in __init__: the exception leaves
\* update_config, with self.cfg already the new configuration and
\* self.reader still the reader that was closed
UpdateConstructFails ==
    /\ upd.pc = "construct"
    /\ burst \cap {"driver", "handler"} = {}
    /\ ~NewReader(cfg, gpio_is_mock).demo_mode
    /\ upd' = NoUpd
    /\ who' = "config"
    /\ chip' = chip
    /\ mq' = mq
    /\ last' = Event("update_config", "SetupError", I(0))
    /\ UNCHANGED <<gpio_is_mock, gpio, hw, readers, cur, cfg, saved, last_vals,
                   stable, display, op, nreads, budget, driver, burst>>

NextRecreate ==
    \/ ConcEnv
    \/ PulseBegin("handler")
    \/ GetReading
    \/ \E c \in Configs : UpdateBegin(c)
    \/ UpdateReader
    \/ UpdateConstruct
    \/ UpdateConstructFails
    \/ UpdateRest

SpecRecreate == InitRecreate /\ [][NextRecreate]_vars

-----------------------------------------------------------------------------
(* One tare, zero or calibrate call in its thread beside update_config in   *)
(* the thread set_config starts, with effort enough for both.               *)

MaxRaceEffort == 7

InitRace == Start(MaxRaceEffort)

NextRace ==
    \/ PulseBegin("worker")
    \/ WorkerStep(TareCall("tare"))
    \/ WorkerStep(TareCall("zero"))
    \/ WorkerRead(RawAverageRead)
    \/ WorkerStep(OffsetAssign)
    \/ WorkerStep(CfgOffsetStore)
    \/ WorkerStep(SaveConfig)
    \/ \E k \in KnownGrams : WorkerStep(CalibrateCall(k))
    \/ WorkerStep(CalibrateTimeout)
    \/ WorkerRead(CalibrateRead)
    \/ WorkerStep(CalibrateFinish)
    \/ WorkerStep(CfgScaleStore)
    \/ \E c \in Configs : UpdateBegin(c)
    \/ UpdateReader
    \/ UpdateConstruct
    \/ UpdateRest

SpecRace == InitRace /\ [][NextRace]_vars

-----------------------------------------------------------------------------
(* A calibrate call in the executor thread beside a tare or zero command    *)
(* served in the MQTT client's thread (mqtt_client._on_message calls        *)
(* AppContext._on_cmd there).  HX711Reader.calibrate reads self.offset in   *)
(* its guard and again in the division, two steps of the thread.            *)

MaxToctouEffort == 10

InitToctou == Start(MaxToctouEffort)

\* raw_avg and the guard: if abs(raw_avg - self.offset) < 10: raise
CalibrateGuard ==
    /\ op.kind = "calibrate"
    /\ op.pc = "collect"
    /\ Len(op.vals) = CalSamples
    /\ IF CalRejects(readers[op.rd], op.vals)
       THEN /\ op' = NoOp
            /\ last' = Event("calibrate", "CalibrationInsufficientDelta",
                             CalRawAvg(op.vals))
       ELSE /\ op' = [op EXCEPT !.pc = "divide"]
            /\ last' = Event("calibrate", "guard", CalRawAvg(op.vals))
    /\ UNCHANGED <<gpio_is_mock, gpio, hw, readers, cur, cfg, saved, last_vals,
                   stable, display, nreads, budget>>

\* self.scale = known_grams / (raw_avg - self.offset), with the offset the
\* reader holds now; float division by 0.0 raises ZeroDivisionError
CalibrateDivide ==
    /\ op.kind = "calibrate"
    /\ op.pc = "divide"
    /\ IF CalRawAvg(op.vals) = readers[op.rd].offset
       THEN /\ op' = NoOp
            /\ readers' = readers
            /\ last' = Event("calibrate", "ZeroDivisionError", I(0))
       ELSE LET sc == CalScale(readers[op.rd], op.known, op.vals)
            IN  /\ readers' = [readers EXCEPT ![op.rd].scale = sc]
                /\ op' = [op EXCEPT !.pc = "cfg", !.ret = sc]
                /\ last' = Event("calibrate", "assign", sc)
    /\ UNCHANGED <<gpio_is_mock, gpio, hw, cur, cfg, saved, last_vals, stable,
                   display, nreads, budget>>

\* A step of the tare or zero command in the MQTT client's thread
MqttStep(step) ==
    /\ step
    /\ who' = "mqtt"
    /\ chip' = chip
    /\ UNCHANGED <<gpio_is_mock, gpio, hw, cur, last_vals, stable, display, op,
                   nreads, driver, burst, upd>>

\* _on_cmd: self.tare() / self.zero(), bound to the reader of the moment
MqttTareCall(kind) ==
    /\ mq.kind = "none"
    /\ budget >= Cost("call")
    /\ budget' = budget - Cost("call")
    /\ mq' = [kind |-> kind, pc |-> "avg", rd |-> cur, vals |-> <<>>]
    /\ last' = Event(kind, "call", I(0))
    /\ UNCHANGED <<readers, cfg, saved>>

\* one _read_raw() of _read_raw_average; an exception ends the command
\* (_on_message swallows it)
MqttRawRead ==
    /\ mq.pc = "avg"
    /\ Len(mq.vals) < Max(1, TareSamples)
    /\ burst = {}
    /\ LET raw == ReadRaw(readers[mq.rd], gpio, hw)
       IN  IF raw.out = "ok"
           THEN /\ mq' = [mq EXCEPT !.vals = Append(mq.vals, raw.val)]
                /\ last' = Event(mq.kind, "read", raw.val)
           ELSE /\ mq' = NoMq
                /\ last' = Event(mq.kind, raw.out, I(0))
    /\ UNCHANGED <<readers, cfg, saved, budget>>

\* self.offset = self._read_raw_average(10)
MqttOffsetAssign ==
    /\ mq.pc = "avg"
    /\ Len(mq.vals) = Max(1, TareSamples)
    /\ readers' = [readers EXCEPT ![mq.rd] =
                     IF mq.kind = "tare" THEN ReaderTare(readers[mq.rd], mq.vals)
                     ELSE ReaderZero(readers[mq.rd], mq.vals)]
    /\ mq' = [mq EXCEPT !.pc = "cfg"]
    /\ last' = Event(mq.kind, "assign", I(0))
    /\ UNCHANGED <<cfg, saved, budget>>

\* self.cfg.offset = self.reader.offset
MqttCfgOffsetStore ==
    /\ mq.pc = "cfg"
    /\ cfg' = [cfg EXCEPT !.offset = readers[cur].offset]
    /\ mq' = [mq EXCEPT !.pc = "save"]
    /\ last' = Event(mq.kind, "cfg", I(0))
    /\ UNCHANGED <<readers, saved, budget>>

\* self.save_config()
MqttSaveConfig ==
    /\ mq.pc = "save"
    /\ saved' = cfg
    /\ last' = Event(mq.kind, "ok", I(0))
    /\ mq' = NoMq
    /\ UNCHANGED <<readers, cfg, budget>>

NextToctou ==
    \/ PulseBegin("worker")
    \/ \E k \in KnownGrams : WorkerStep(CalibrateCall(k))
    \/ WorkerStep(CalibrateTimeout)
    \/ WorkerRead(CalibrateRead)
    \/ WorkerStep(CalibrateGuard)
    \/ WorkerStep(CalibrateDivide)
    \/ WorkerStep(CfgScaleStore)
    \/ WorkerStep(SaveConfig)
    \/ \E kind \in {"tare", "zero"} : MqttStep(MqttTareCall(kind))
    \/ MqttStep(MqttRawRead)
    \/ MqttStep(MqttOffsetAssign)
    \/ MqttStep(MqttCfgOffsetStore)
    \/ MqttStep(MqttSaveConfig)

SpecToctou == InitToctou /\ [][NextToctou]_vars

-----------------------------------------------------------------------------
(* read_raw_mode called on its own, in any order of modes, so that every    *)
(* selection can be in force when a call begins.                            *)

MaxModeCalls == 3

Modes == {"A128", "B32", "A64"}

InitModes == Start(MaxModeCalls)

\* self.reader.read_raw_mode(mode): the event records the mode asked for, the
\* selection in force when the call began, the value returned, the channel and
\* gain of the conversion it was read from, and the reads and pulses made
ReadModeCall(mode) ==
    /\ budget >= Cost("read")
    /\ \E bits \in IF readers[cur].demo_mode THEN {0} ELSE BitPatterns,
          syn  \in IF readers[cur].demo_mode THEN SynRaw ELSE {0} :
         LET got == ReadRawMode(readers[cur], gpio, hw.bits, bits, syn, mode, chip)
         IN  /\ last' = Event("read_raw_mode", got.out,
                              [mode |-> mode, before |-> chip, val |-> got.val,
                               conv |-> got.conv, reads |-> got.reads,
                               pulses |-> got.pulses])
             /\ chip' = got.sel
    /\ budget' = budget - Cost("read")
    /\ UNCHANGED <<gpio_is_mock, gpio, hw, readers, cur, cfg, saved, last_vals,
                   stable, display, op, nreads>>

NextModes == \E mode \in Modes : ReadModeCall(mode) /\ UNCHANGED conc

SpecModes == InitModes /\ [][NextModes]_vars

-----------------------------------------------------------------------------
(* The read path started with a sample rate above 5, so that the stability  *)
(* history grows beyond 5 values before a configuration update lowers the   *)
(* rate.                                                                    *)

MaxHistoryEffort == 9

InitHistory == Start(MaxHistoryEffort) /\ cfg.sample_rate > StableMinLen

SpecHistory == InitHistory /\ [][NextReads]_vars

-----------------------------------------------------------------------------
(* The median filter alone: a hardware reader with a median window of 5 and *)
(* a moving-average window of 1 reads a signal that delivers ordinary       *)
(* conversions and extreme ones in any order.                               *)

MaxMedianReads == 5

\* ordinary conversions, and the two ends of the 24-bit range
NormalBits == {1000, 1001, 1003}
OutlierBits == {Pow2(DataBits - 1) - 1, Pow2(DataBits - 1)}

MedianConfig ==
    [BaseConfig EXCEPT !.sample_rate = 1, !.median_window = 5,
                       !.scale = I(2), !.offset = I(10)]

InitMedian ==
    /\ gpio_is_mock = FALSE
    /\ cfg = MedianConfig
    /\ saved = cfg
    /\ readers = <<NewReader(cfg, gpio_is_mock)>>
    /\ cur = 1
    /\ gpio = ReaderPins(readers[1])
    /\ hw \in {[ready |-> TRUE, bits |-> b, syn |-> I(110)] :
                  b \in NormalBits \cup OutlierBits}
    /\ last_vals = <<>>
    /\ stable = FALSE
    /\ display = [config |-> cfg.display, alive |-> FALSE, queue |-> FALSE,
                  stop_set |-> FALSE, child |-> cfg.display]
    /\ op = NoOp
    /\ last = Event("init", "ok", I(0))
    /\ nreads = 0
    /\ budget = MaxMedianReads
    /\ driver = "running"
    /\ burst = {}
    /\ upd = NoUpd
    /\ who = "init"
    /\ chip = "A128"
    /\ mq = NoMq

\* the converter finishes its next conversion, of any of the values
NextConversion ==
    /\ last.op = "read_grams"
    /\ \E b \in NormalBits \cup OutlierBits : hw' = [hw EXCEPT !.bits = b]
    /\ last' = Event("env", "ok", I(0))
    /\ UNCHANGED <<gpio_is_mock, gpio, readers, cur, cfg, saved, last_vals,
                   stable, display, op, nreads, budget>>

NextMedian ==
    \/ NextConversion /\ UNCHANGED <<conc, chip>>
    \/ ReadGrams /\ last.op # "read_grams" /\ UNCHANGED <<conc, chip>>

SpecMedian == InitMedian /\ [][NextMedian]_vars

----------------------------------------------------------------------------
(* Properties.                                                              *)

\* The raw sample the signal source yields in environment h to reader r:
\* the synthetic waveform's value, or the two's-complement value of the 24
\* bits shifted out.
SourceValue(r, h) ==
    IF r.demo_mode THEN h.syn
    ELSE IF h.bits >= Pow2(DataBits - 1) THEN I(h.bits - Pow2(DataBits))
    ELSE I(h.bits)

\* the twenty reads of a calibration under a constant raw signal of 1000
Raw1000 ==
    << I(1000), I(1000), I(1000), I(1000), I(1000),
       I(1000), I(1000), I(1000), I(1000), I(1000),
       I(1000), I(1000), I(1000), I(1000), I(1000),
       I(1000), I(1000), I(1000), I(1000), I(1000) >>

\* n * (raw_avg - offset) for the n collected reads vals of reader r
DeltaTimesN(r, vals) == RSub(RSum(vals), RMul(I(Len(vals)), r.offset))

\* scale and offset of every reader, of ctx.cfg and of the persisted config
Calibration(rs, c, s) ==
    <<[i \in 1..Len(rs) |-> <<rs[i].scale, rs[i].offset>>],
      c.scale, c.offset, s.scale, s.offset>>

\* C1: a read_grams() whose raw read fails (AcquisitionTimeout, or any other
\* exception of the raw read) appends nothing: the median FIFO and the
\* moving-average FIFO of every reader, the stability history and the
\* stability flag are exactly what they were before the call.
C1_FailedReadAppendsNothing ==
    [][ (last'.op = "read_grams" /\ last'.out # "ok") =>
          /\ Len(readers') = Len(readers)
          /\ \A i \in 1..Len(readers) :
               /\ readers'[i].raw_window = readers[i].raw_window
               /\ readers'[i].avg_window = readers[i].avg_window
          /\ last_vals' = last_vals
          /\ stable' = stable ]_vars

\* A read has just timed out with samples in both FIFOs and in the history.
C1_Witness ==
    /\ last.op = "read_grams"
    /\ last.out = "TimeoutError"
    /\ Len(readers[cur].raw_window) > 0
    /\ Len(readers[cur].avg_window) > 0
    /\ Len(last_vals) > 0

\* C2: in hardware mode, a calibrate whose 20 collected reads have
\* |raw_avg - offset| < 10 fails with CalibrationInsufficientDelta and leaves
\* scale and offset (reader, ctx.cfg, persisted) unchanged; with
\* |raw_avg - offset| >= 10, in particular exactly 10, it is not rejected.
C2_NearZeroGuard ==
    [][ (op.kind = "calibrate" /\ op.pc = "collect" /\ Len(op.vals) = CalSamples
         /\ last'.op = "calibrate") =>
          IF RLt(RAbs(DeltaTimesN(readers[op.rd], op.vals)), I(CalSamples * 10))
          THEN /\ last'.out = "CalibrationInsufficientDelta"
               /\ op' = NoOp
               /\ Calibration(readers', cfg', saved') =
                    Calibration(readers, cfg, saved)
          ELSE /\ last'.out = "assign"
               /\ op'.kind = "calibrate" ]_vars

\* A calibration has just been rejected although the raw average differs
\* from the offset.
C2_Witness ==
    /\ last.op = "calibrate"
    /\ last.out = "CalibrationInsufficientDelta"
    /\ ~readers[cur].demo_mode
    /\ last.val # readers[cur].offset

C4_AllOrNothing ==
    [][ /\ (last'.op = "calibrate" /\ last'.out \notin {"assign", "cfg", "ok"}) =>
             Calibration(readers', cfg', saved') = Calibration(readers, cfg, saved)
        /\ (last'.op = "calibrate"
            /\ last'.out \in {"CalibrationTimeout", "CalibrationInsufficientDelta"}) =>
             /\ op' = NoOp
             /\ readers'[cur'].scale = cfg'.scale
             /\ readers'[cur'].offset = cfg'.offset
             /\ saved'.scale = cfg'.scale
             /\ saved'.offset = cfg'.offset ]_vars

\* A calibration has just timed out after it had collected some readings.
C4_Witness ==
    /\ last.op = "calibrate"
    /\ last.out = "CalibrationTimeout"
    /\ last.val.n > 0
    /\ op = NoOp

\* C5: tare sets offset to the arithmetic mean of exactly 10 raw reads, each
\* the sample the source yielded at that read (in hardware and in synthetic
\* mode); the reads leave the median and moving-average FIFOs alone and
\* nothing but offset changes in the reader.
C5_TareIsMeanOfTenRawReads ==
    [][ /\ (op.kind = "tare" /\ last'.op = "tare" /\ last'.out = "read") =>
             /\ op'.vals = Append(op.vals, SourceValue(readers[op.rd], hw))
             /\ readers' = readers
        /\ (op.kind = "tare" /\ last'.op = "tare" /\ last'.out = "assign") =>
             /\ Len(op.vals) = 10
             /\ RMul(I(10), readers'[op.rd].offset) = RSum(op.vals)
             /\ [readers'[op.rd] EXCEPT !.offset = readers[op.rd].offset]
                  = readers[op.rd] ]_vars

\* A tare has just assigned an offset taken from reads that are not all
\* equal.
C5_Witness ==
    /\ op.kind = "tare"
    /\ op.pc = "cfg"
    /\ Len(op.vals) = 10
    /\ op.vals[1] # op.vals[10]
    /\ RMul(I(10), readers[op.rd].offset) = RSum(op.vals)

\* C6: zero has the effect of tare: from the same state and the same raw
\* reads, the reader zero leaves is the reader tare leaves (offset
\* re-baselined to the raw average, everything else equal), and ctx.cfg and
\* the persisted configuration receive that offset as they do after tare.
C6_ZeroSameAsTare ==
    [][ /\ (op.kind = "zero" /\ last'.op = "zero" /\ last'.out = "assign") =>
             /\ readers' = [readers EXCEPT
                              ![op.rd] = ReaderTare(readers[op.rd], op.vals)]
             /\ RMul(I(Len(op.vals)), readers'[op.rd].offset) = RSum(op.vals)
        /\ (op.kind \in {"tare", "zero"} /\ last'.op = op.kind /\ last'.out = "cfg") =>
             cfg' = [cfg EXCEPT !.offset = readers[cur].offset]
        /\ (op.kind \in {"tare", "zero"} /\ last'.op = op.kind /\ last'.out = "ok") =>
             saved' = cfg ]_vars

\* A zero has just re-baselined the offset to a non-zero raw average that
\* differs from the offset before the call.
C6_Witness ==
    /\ op.kind = "zero"
    /\ op.pc = "cfg"
    /\ readers[op.rd].offset # I(0)
    /\ readers[op.rd].offset # cfg.offset

\* Number of elements of s below x, and above x
CountBelow(s, x) == Cardinality({i \in 1..Len(s) : RLt(s[i], x)})

CountAbove(s, x) == Cardinality({i \in 1..Len(s) : RLt(x, s[i])})

\* v is the k-th smallest element of s
OrderStat(v, s, k) ==
    /\ \E i \in 1..Len(s) : s[i] = v
    /\ CountBelow(s, v) <= k - 1
    /\ Len(s) - CountAbove(s, v) >= k

\* m is the median of the non-empty s: its middle element in order, or the
\* mean of the two middle elements when the length is even
IsMedian(m, s) ==
    LET n == Len(s)
    IN  IF n % 2 = 1 THEN OrderStat(m, s, (n + 1) \div 2)
        ELSE \E i, j \in 1..n :
               /\ OrderStat(s[i], s, n \div 2)
               /\ OrderStat(s[j], s, n \div 2 + 1)
               /\ RMul(I(2), m) = RAdd(s[i], s[j])

\* q is p after x arrived: x appended, the oldest element dropped or not
Arrived(q, p, x) == q = Append(p, x) \/ (p # <<>> /\ q = Append(Tail(p), x))

\* C7: each successful read_grams() pushes the sample the source yielded
\* into the median FIFO, takes the median of the FIFO's contents (only the
\* samples present, no padding), computes grams = (median - offset) * scale
\* with the reader's offset and scale at the call, pushes grams into the
\* moving-average FIFO and returns the arithmetic mean of that FIFO's
\* contents; nothing else changes in the reader.
C7_ReadPipeline ==
    [][ (last'.op = "read_grams" /\ last'.out = "ok") =>
          LET r  == readers[cur]
              rw == readers'[cur].raw_window
              aw == readers'[cur].avg_window
          IN  /\ cur' = cur
              /\ Arrived(rw, r.raw_window, SourceValue(r, hw))
              /\ \E m \in {RDiv(RAdd(rw[i], rw[j]), I(2)) : i, j \in 1..Len(rw)} :
                   /\ IsMedian(m, rw)
                   /\ Arrived(aw, r.avg_window, RMul(RSub(m, r.offset), r.scale))
              /\ RMul(last'.val, I(Len(aw))) = RSum(aw)
              /\ [readers'[cur] EXCEPT !.raw_window = r.raw_window,
                                       !.avg_window = r.avg_window] = r ]_vars

\* A read has just succeeded on a median FIFO that is not yet full and holds
\* two different samples, with a non-zero offset and a scale other than 1.
C7_Witness ==
    /\ last.op = "read_grams"
    /\ last.out = "ok"
    /\ Len(readers[cur].raw_window) = 2
    /\ readers[cur].raw_maxlen = 3
    /\ readers[cur].raw_window[1] # readers[cur].raw_window[2]
    /\ readers[cur].offset # I(0)
    /\ readers[cur].scale # I(1)

\* C8 (as claimed): in every reachable state the median FIFO holds at most
\* median_window samples and the moving-average FIFO at most
\* max(1, sample_rate) values, median_window and sample_rate being the
\* reader's current parameters.  The part on median_window does not hold:
\* update_config's in-place branch stores the configured median_window
\* unclamped, below the capacity the FIFO was built with.
C8_FifoWithinWindow ==
    /\ Len(readers[cur].raw_window) <= readers[cur].median_window
    /\ Len(readers[cur].avg_window) <= Max(1, readers[cur].sample_rate)

\* C8, the part that holds: each FIFO holds at most the capacity it was built
\* with (max(1, median_window) and max(1, min(80, sample_rate)) of the
\* configuration the reader was constructed from); an insertion into a full
\* FIFO drops exactly the oldest element and keeps the others in order, an
\* insertion into one that is not full drops nothing.
C8_EvictsOldest ==
    /\ [](/\ Len(readers[cur].raw_window) <= readers[cur].raw_maxlen
          /\ Len(readers[cur].avg_window) <= readers[cur].avg_maxlen)
    /\ [][ (last'.op = "read_grams" /\ last'.out = "ok") =>
            LET r  == readers[cur]
                rw == readers'[cur].raw_window
                aw == readers'[cur].avg_window
            IN  /\ SubSeq(rw, 1, Len(rw) - 1) =
                     IF Len(r.raw_window) = r.raw_maxlen
                     THEN Tail(r.raw_window) ELSE r.raw_window
                /\ SubSeq(aw, 1, Len(aw) - 1) =
                     IF Len(r.avg_window) = r.avg_maxlen
                     THEN Tail(r.avg_window) ELSE r.avg_window ]_vars

\* The median FIFO holds a sample while the reader's median_window is 0.
C8_Witness ==
    /\ readers[cur].median_window = 0
    /\ Len(readers[cur].raw_window) = 1
    /\ last.op = "read_grams"

\* sigma < thr for the population standard deviation sigma of vals, by
\* sigma^2 = (n * sum(x^2) - sum(x)^2) / n^2, over the common denominator D:
\* n * sum(a^2) * thr.d^2  <  n^2 * D^2 * thr.n^2 + sum(a)^2 * thr.d^2
SigmaBelow(vals, thr) ==
    LET n  == Len(vals)
        D  == LCMDen(vals)
        a  == [i \in 1..n |-> vals[i].n * (D \div vals[i].d)]
        sa == RSum([i \in 1..n |-> I(a[i])]).n
        s2 == BigSum([i \in 1..n |-> BigSq(a[i])])
    IN  BigLt(BigMul(BigMul(Big(n), s2), BigSq(thr.d)),
              BigAdd(BigMul(BigMul(BigSq(n), BigSq(D)), BigSq(thr.n)),
                     BigMul(BigSq(sa), BigSq(thr.d))))

\* max(0.5, 5.0 / max(1, scale))
ThresholdOf(scale) ==
    LET m == IF RLt(scale, I(1)) THEN I(1) ELSE scale
        t == RDiv(I(5), m)
    IN  IF RLt(t, Q(1, 2)) THEN Q(1, 2) ELSE t

\* C9: after each successful read_grams() the history ends with the value
\* returned, and the stability flag is false if the history holds fewer than
\* 5 values, otherwise true exactly when the population standard deviation
\* of the history is strictly below max(0.5, 5.0 / max(1, scale)), scale
\* being ctx.cfg.scale, which is the reader's scale at every read.
C9_StabilityFlag ==
    [][ (last'.op = "read_grams" /\ last'.out = "ok") =>
          /\ last_vals' # <<>>
          /\ last_vals'[Len(last_vals')] = last'.val
          /\ cfg.scale = readers[cur].scale
          /\ stable' = IF Len(last_vals') < 5 THEN FALSE
                       ELSE SigmaBelow(last_vals', ThresholdOf(cfg.scale)) ]_vars

\* A read has just set the flag on a history of at least 5 values that are
\* not all equal, under a scale above 1.
C9_Witness ==
    /\ last.op = "read_grams"
    /\ last.out = "ok"
    /\ Len(last_vals) >= 5
    /\ last_vals[1] # last_vals[Len(last_vals)]
    /\ RLt(I(1), cfg.scale)
    /\ stable

\* C10: the stability flag is false until 5 reads have succeeded since the
\* start, and each successful read from the 5th on finds at least 5 values
\* in the history and sets the flag by the threshold comparison.
C10_StableFromFifthRead ==
    [][ /\ nreads' <= 4 => stable' = FALSE
        /\ (last'.op = "read_grams" /\ last'.out = "ok" /\ nreads' >= 5) =>
             /\ Len(last_vals') >= 5
             /\ stable' = SigmaBelow(last_vals', ThresholdOf(cfg.scale)) ]_vars

\* The fifth successful read since the start has just set the flag.
C10_Witness ==
    /\ nreads = 5
    /\ last.op = "read_grams"
    /\ last.out = "ok"
    /\ stable

\* The pin assignment or the synthetic-mode flag differs between the
\* configurations old and new
SourceChanged(old, new) ==
    \/ old.gpio_dout # new.gpio_dout
    \/ old.gpio_sck # new.gpio_sck
    \/ old.demo_mode # new.demo_mode

C12_HotPatchKeepsFilterState ==
    [][ (last'.op = "update_config" /\ ~SourceChanged(cfg, cfg')) =>
          readers'[cur'] =
            [readers[cur] EXCEPT !.scale = cfg'.scale,
                                 !.offset = cfg'.offset,
                                 !.sample_rate = cfg'.sample_rate,
                                 !.median_window = cfg'.median_window] ]_vars

\* A hardware reader whose close() has been called: update_config has
\* closed it and not yet bound ctx.reader to its successor, or it is no
\* longer ctx.reader at all.
ClosedReader(i) ==
    /\ ~readers[i].demo_mode
    /\ i # cur \/ upd.pc = "construct"

\* C13: in every interleaving of update_config with the callers of
\* _read_raw, no raw read is performed on a reader whose lines have been
\* released: a read_grams of the event loop, and a raw read of a tare, zero
\* or calibrate call, act on a reader that has not been closed.
C13_NoReadOnReleasedSource ==
    [][ /\ (who' \in {"driver", "handler"} /\ last'.op = "read_grams")
             => ~ClosedReader(cur)
        /\ (who' = "worker" /\ WorkerReads /\ last'.out # "CalibrationTimeout")
             => ~ClosedReader(op.rd) ]_vars

\* C14: at no time are two clock-pulse sequences in progress at once.
C14_OneBurstAtATime == Cardinality(burst) <= 1

\* The step appends to a FIFO of ctx.reader or to the stability history, or
\* changes the stability flag (update_config replaces or keeps the FIFOs, it
\* appends nothing).
WritesFilterOrStability ==
    \/ last_vals' # last_vals
    \/ stable' # stable
    \/ /\ who' # "config"
       /\ \/ readers'[cur].raw_window # readers[cur].raw_window
          \/ readers'[cur].avg_window # readers[cur].avg_window

\* C15: the periodic driver is the only writer of the median FIFO, the
\* moving-average FIFO, the stability history and the stability flag.
C15_DriverIsOnlyWriter ==
    [][ WritesFilterOrStability => who' = "driver" ]_vars

\* C17: a read_grams() that fails with TimeoutError in the periodic driver
\* leaves the driver's loop running.
C17_DriverSurvivesTimeout ==
    (who = "driver" /\ last.op = "read_grams" /\ last.out = "TimeoutError")
        => driver = "running"

\* C16: while a calibrate call is in progress the periodic driver keeps
\* taking read_grams() steps: from any state in which the calibrate thread
\* has just acted and the call is still in progress, a step of the driver
\* eventually follows.
C16_DriverRunsDuringCalibrate ==
    (op.kind = "calibrate" /\ who = "worker") ~> (who = "driver")

\* C18: every calibrate call eventually completes; it completes by
\* returning a scale, with CalibrationTimeout or with
\* CalibrationInsufficientDelta; a raw read that times out is retried and
\* contributes no sample.
C18_CalibrateTerminates ==
    /\ (op.kind = "calibrate") ~> (op.kind = "none")
    /\ [][ /\ (op.kind = "calibrate" /\ op'.kind = "none") =>
                /\ last'.op = "calibrate"
                /\ \/ last'.out = "ok" /\ last'.val = op.ret /\ op.pc = "save"
                   \/ last'.out = "CalibrationTimeout" /\ Len(op.vals) < CalSamples
                   \/ /\ last'.out = "CalibrationInsufficientDelta"
                      /\ Len(op.vals) = CalSamples
                      /\ CalRejects(readers[op.rd], op.vals)
           /\ (who' = "worker" /\ op.kind = "calibrate" /\ op.pc = "collect"
                 /\ ReadRaw(readers[op.rd], gpio, hw).out = "TimeoutError") =>
                \/ op' = op /\ last'.out \in {"retry", "begin"}
                \/ last'.out = "CalibrationTimeout" ]_vars

\* a calibrate call has ended with CalibrationTimeout after a raw read of
\* it timed out, with no sample collected
C18_Witness ==
    /\ last = Event("calibrate", "CalibrationTimeout", I(0))
    /\ ~hw.ready /\ ~readers[cur].demo_mode

\* C19: close() never raises, however many times in a row it is called, and
\* after each call the lines of the reader are released.
C19_CloseIdempotent ==
    [][ last'.op = "close" =>
          /\ last'.out = "ok"
          /\ gpio' \cap ReaderPins(readers[cur]) = {}
          /\ last.op = "close" => gpio' = gpio ]_vars

\* close() has been called three times in a row on a hardware reader
C19_Witness ==
    /\ last = Event("close", "ok", I(3))
    /\ ~readers[cur].demo_mode
    /\ gpio = {}

\* The signed 24-bit range
Int24(v) == v \in Int /\ v >= -8388608 /\ v <= 8388607

\* C20: read_raw_all_modes() on a reader that is synthetic, or whose lines
\* are set up, returns a mapping with exactly the keys B32, A64 and A128
\* whose values are integers in [-8388608, 8388607].
C20_AllModesInRange ==
    [][ (last'.op = "debug_raw"
           /\ (readers[cur].demo_mode \/ ReaderPins(readers[cur]) \subseteq gpio)) =>
          /\ last'.out = "ok"
          /\ DOMAIN last'.val = {"B32", "A64", "A128"}
          /\ \A k \in DOMAIN last'.val : Int24(last'.val[k]) ]_vars

\* the three modes have delivered the extreme bit patterns in hardware mode
C20_Witness ==
    /\ last.op = "debug_raw" /\ last.out = "ok"
    /\ ~readers[cur].demo_mode
    /\ last.val = [B32 |-> -8388608, A64 |-> 8388607, A128 |-> -1]

\* C21: the diagnostic sweep leaves the readers (both FIFOs, offset and
\* scale), the stability history and the configuration unchanged, and the
\* converter has A128 selected before and after every step, so the conversion
\* that any read_grams() reads out was made in A128.
C21_SweepLeavesContinuousPath ==
    /\ [](chip = "A128")
    /\ [][ last'.op = "debug_raw" =>
             /\ readers' = readers
             /\ last_vals' = last_vals /\ stable' = stable
             /\ cfg' = cfg /\ saved' = saved ]_vars

\* a sweep has run on the hardware between continuous reads, whose samples
\* are in the median FIFO
C21_Witness ==
    /\ last.op = "debug_raw" /\ last.out = "ok"
    /\ ~readers[cur].demo_mode
    /\ Len(readers[cur].raw_window) >= 2
    /\ chip = "A128"

\* C22 (as claimed): in every reachable state the reader's sample_rate lies
\* in [1, 80] and its median_window is at least 1.  It does not hold:
\* update_config's in-place branch stores both as configured.
C22_ParametersClamped ==
    /\ readers[cur].sample_rate >= 1
    /\ readers[cur].sample_rate <= SampleRateMax
    /\ readers[cur].median_window >= 1

\* C23: without real GPIO the reader is synthetic whatever the configured
\* flag; and while the reader is synthetic no line is set up, its raw read
\* returns the synthetic value whether or not DOUT is ready, its mode reads
\* return the synthetic value with no pulse sent and the converter's
\* selection untouched, close() leaves the lines as they are, and no step of
\* read_grams, tare, zero or calibrate ends in a timeout or a GPIO error or
\* changes the lines.
C23_SyntheticTouchesNoLine ==
    /\ [](gpio_is_mock => readers[cur].demo_mode)
    /\ [](readers[cur].demo_mode =>
            /\ gpio = {}
            /\ ReadRaw(readers[cur], gpio, hw) = [out |-> "ok", val |-> hw.syn]
            /\ ReaderClose(readers[cur], gpio) = [out |-> "ok", pins |-> gpio]
            /\ \A mode \in {"A128", "B32", "A64"}, s \in SynRaw :
                 LET got == ReadRawMode(readers[cur], gpio, hw.bits, hw.bits,
                                        s, mode, chip)
                 IN  /\ got.out = "ok" /\ got.val = s
                     /\ got.pulses = 0 /\ got.sel = chip)
    /\ [][ (readers[cur].demo_mode /\ last' # last
              /\ last'.op \in {"read_grams", "tare", "zero", "calibrate"}) =>
             /\ last'.out \notin {"TimeoutError", "CalibrationTimeout",
                                   "RuntimeError"}
             /\ gpio' = gpio
             /\ chip' = chip ]_vars

\* without real GPIO and with the flag configured off, a tare has completed
\* on the synthetic reader after a read
C23_Witness ==
    /\ gpio_is_mock /\ ~cfg.demo_mode
    /\ readers[cur].demo_mode
    /\ last.op = "tare" /\ last.out = "ok"
    /\ nreads > 0

\* C24 (as claimed): the read_grams() that follows a completed tare() at once
\* returns exactly 0 when the raw signal is constant: the offset the tare
\* assigned is the value read now, and every sample of the median FIFO,
\* whatever reads came before the tare, is that value too.  It does not hold:
\* the moving-average FIFO still holds the values computed before the tare.
C24_ZeroAfterTare ==
    [][ (/\ last = Event("tare", "ok", I(0))
         /\ last'.op = "read_grams" /\ last'.out = "ok"
         /\ readers[cur].offset = ReadRaw(readers[cur], gpio, hw).val
         /\ \A i \in 1..Len(readers[cur].raw_window) :
              readers[cur].raw_window[i] = readers[cur].offset) =>
          last'.val = I(0) ]_vars

\* C25: on a synthetic reader the calibrate call assigns scale 1 and returns
\* 1 at once, whatever known_grams, scale and offset are, leaving every other
\* field of the reader (its offset among them) unchanged; no step of the
\* request reads a raw sample or fails, and the request ends with 1 stored as
\* the configured scale.
C25_SyntheticCalibrate ==
    [][ /\ (op.kind = "none" /\ op'.kind = "calibrate"
              /\ readers[cur].demo_mode) =>
             /\ readers' = [readers EXCEPT ![cur].scale = I(1)]
             /\ op'.ret = I(1) /\ op'.vals = <<>> /\ op'.pc = "cfg"
        /\ (op.kind = "calibrate" /\ op' # op /\ readers[cur].demo_mode) =>
             /\ last'.op = "calibrate"
             /\ last'.out \in {"cfg", "ok"}
             /\ last'.val = I(1)
             /\ readers' = readers
             /\ op'.kind = "none" => cfg'.scale = I(1) /\ saved'.scale = I(1)
      ]_vars

\* a calibrate request has completed on a synthetic reader whose scale was 2
\* and whose offset is 10
C25_Witness ==
    /\ last = Event("calibrate", "ok", I(1))
    /\ readers[cur].demo_mode
    /\ readers[cur].offset = I(10) /\ readers[cur].scale = I(1)
    /\ saved.scale = I(1) /\ saved.offset = I(10)

\* an ordinary sample
IsNormal(x) == x \in {I(b) : b \in NormalBits}

\* C26: when the median FIFO of capacity 5 holds four ordinary samples and
\* one extreme sample, in whatever position it arrived, the median that the
\* returned grams value was computed from (returned / scale + offset, the
\* moving-average window being 1) lies between the smallest and the largest
\* ordinary sample, and is closer to the mean of the ordinary samples than
\* the extreme sample is.
C26_OutlierRejected ==
    LET w        == readers[cur].raw_window
        normals  == SelectSeq(w, IsNormal)
        outliers == {i \in 1..Len(w) : ~IsNormal(w[i])}
        mean     == RDiv(RSum(normals), I(4))
        filtered == RAdd(RDiv(last.val, readers[cur].scale), readers[cur].offset)
    IN  (/\ last.op = "read_grams" /\ last.out = "ok"
         /\ Len(w) = 5 /\ Cardinality(outliers) = 1) =>
          /\ \E i \in 1..4 : RLe(normals[i], filtered)
          /\ \E i \in 1..4 : RLe(filtered, normals[i])
          /\ \A i \in outliers :
               RLt(RAbs(RSub(filtered, mean)), RAbs(RSub(w[i], mean)))

\* the most negative sample arrived third among four ordinary ones, and the
\* read returned (1001 - 10) * 2
C26_Witness ==
    /\ last = Event("read_grams", "ok", I(1982))
    /\ readers[cur].raw_window = <<I(1003), I(1000), I(-8388608), I(1001), I(1001)>>

Decode(U) == IF U >= 8388608 THEN U - 16777216 ELSE U

\* C28: read_raw_mode(mode) on a hardware reader whose lines are set up makes
\* exactly two reads, each followed by the pulses of the mode asked for (1 for
\* A128, 2 for B32, 3 for A64; 2 * (24 + pulses) in all), and returns the
\* value of the second read, never that of the priming read; the conversion
\* returned was made with the channel and gain asked for, whatever was
\* selected when the call began, and that mode stays selected.
C28_SecondReadInRequestedMode ==
    [][ (/\ last'.op = "read_raw_mode"
         /\ ~readers[cur].demo_mode
         /\ ReaderPins(readers[cur]) \subseteq gpio) =>
          LET v        == last'.val
              trailing == [A128 |-> 1, B32 |-> 2, A64 |-> 3]
          IN  /\ last'.out = "ok"
              /\ v.before = chip
              /\ v.reads = 2
              /\ v.pulses = 2 * (24 + trailing[v.mode])
              /\ v.val \in {Decode(b) : b \in BitPatterns}
              /\ v.val # Decode(hw.bits)
              /\ v.conv = v.mode
              /\ chip' = v.mode ]_vars

\* B32 was asked for while A64 was selected, and the second read delivered
\* the most negative value
C28_Witness ==
    /\ last.op = "read_raw_mode" /\ last.out = "ok"
    /\ ~readers[cur].demo_mode
    /\ last.val.mode = "B32" /\ last.val.before = "A64"
    /\ last.val.conv = "B32" /\ last.val.val = -8388608

\* C29: a hardware raw read returns, for the 24-bit pattern U on the line,
\* U when bit 23 is clear and U - 2^24 when it is set, a value within
\* [-8388608, 8388607]: the sample that a read_grams() step appends to the
\* median FIFO is that value of the pattern on the line, and every value of a
\* diagnostic sweep is that value of one of the patterns delivered.
C29_SignedFromMsbFirst ==
    [][ /\ (last'.op = "read_grams" /\ last'.out = "ok"
              /\ ~readers[cur].demo_mode) =>
             LET rw == readers'[cur].raw_window
             IN  /\ rw[Len(rw)] = I(Decode(hw.bits))
                 /\ Int24(rw[Len(rw)].n)
        /\ (last'.op = "debug_raw" /\ last'.out = "ok"
              /\ ~readers[cur].demo_mode) =>
             \A k \in DOMAIN last'.val :
                 /\ last'.val[k] \in {Decode(b) : b \in BitPatterns}
                 /\ Int24(last'.val[k]) ]_vars

\* a read_grams() has read the pattern 0xFFFFEC as -20
C29_Witness ==
    /\ last.op = "read_grams" /\ last.out = "ok"
    /\ ~readers[cur].demo_mode
    /\ hw.bits = 16777196
    /\ readers[cur].raw_window[Len(readers[cur].raw_window)] = I(-20)

\* C30: after every read_grams() that returns, the stability history is the
\* history before with the returned value appended, cut down to its most
\* recent max(5, sample_rate) values in their order (sample_rate being the
\* configured one at the time of the read), also when a configuration update
\* has lowered sample_rate since the history was filled.
C30_HistoryBounded ==
    [][ (last'.op = "read_grams" /\ last'.out = "ok") =>
          LET v   == Append(last_vals, last'.val)
              cap == IF cfg.sample_rate > 5 THEN cfg.sample_rate ELSE 5
              k   == Len(last_vals')
          IN  /\ k <= cap
              /\ k = IF Len(v) < cap THEN Len(v) ELSE cap
              /\ \A i \in 1..k : last_vals'[i] = v[Len(v) - k + i] ]_vars

\* six readings were held under sample_rate 6; the rate was lowered to 2 and
\* the seventh read has cut the history down to the five most recent
C30_Witness ==
    /\ last.op = "read_grams" /\ last.out = "ok"
    /\ nreads = 7
    /\ cfg.sample_rate = 2
    /\ Len(last_vals) = 5

\* C31: every step of a tare or zero request leaves each reader as it was
\* but for its offset, and ctx.cfg and the persisted configuration as they
\* were but for offset; every step of a calibrate request leaves each reader
\* as it was but for its scale, and the configurations as they were but for
\* scale; no such step changes the stability history, the stability flag or
\* the lines that are set up.
C31_OnlyOffsetOrScale ==
    [][ /\ (op' # op /\ (op.kind \in {"tare", "zero"} \/ op'.kind \in {"tare", "zero"})) =>
             /\ DOMAIN readers' = DOMAIN readers
             /\ \A i \in DOMAIN readers :
                  [readers'[i] EXCEPT !.offset = readers[i].offset] = readers[i]
             /\ [cfg' EXCEPT !.offset = cfg.offset] = cfg
             /\ [saved' EXCEPT !.offset = saved.offset] = saved
             /\ last_vals' = last_vals /\ stable' = stable /\ gpio' = gpio
        /\ (op' # op /\ (op.kind = "calibrate" \/ op'.kind = "calibrate")) =>
             /\ DOMAIN readers' = DOMAIN readers
             /\ \A i \in DOMAIN readers :
                  [readers'[i] EXCEPT !.scale = readers[i].scale] = readers[i]
             /\ [cfg' EXCEPT !.scale = cfg.scale] = cfg
             /\ [saved' EXCEPT !.scale = saved.scale] = saved
             /\ last_vals' = last_vals /\ stable' = stable /\ gpio' = gpio
      ]_vars

\* a zero has completed on a hardware reader with scale 2 whose FIFOs and
\* stability history hold values, and has moved the offset
C31_Witness ==
    /\ last.op = "zero" /\ last.out = "ok"
    /\ ~readers[cur].demo_mode
    /\ readers[cur].raw_window # <<>> /\ readers[cur].avg_window # <<>>
    /\ last_vals # <<>>
    /\ readers[cur].scale = I(2) /\ readers[cur].offset \notin {I(0), I(10)}

\* C32: while update_config is about to construct the new reader, the lines
\* of the reader it replaces are released: the step that closes the old
\* reader releases exactly its lines and constructs nothing, and when the
\* construction fails the lines of the old reader are still released.
C32_ReleaseBeforeConstruct ==
    /\ [](upd.pc = "construct" => ReaderPins(readers[cur]) \cap gpio = {})
    /\ [][ /\ (upd.pc = "reader" /\ upd'.pc = "construct") =>
                /\ gpio' = gpio \ ReaderPins(readers[cur])
                /\ readers' = readers /\ cur' = cur
           /\ (last' # last /\ last'.out = "SetupError") =>
                /\ ReaderPins(readers'[cur']) \cap gpio' = {}
                /\ gpio' = gpio /\ readers' = readers ]_vars

\* the construction has failed after the hardware reader that had served a
\* read was closed: no line is set up
C32_Witness ==
    /\ last = Event("update_config", "SetupError", I(0))
    /\ ~readers[cur].demo_mode
    /\ readers[cur].raw_window # <<>>
    /\ gpio = {}

\* C33 (as claimed): whenever no tare, zero, calibrate or update_config is in
\* progress, ctx.cfg and ctx.reader agree on scale and on offset, in every
\* interleaving.  It does not hold: a calibrate bound to the reader that
\* update_config replaces stores its scale in the new configuration.
C33_ConfigAgreesWithReader ==
    (op.kind = "none" /\ upd.pc = "idle") =>
        /\ cfg.scale = readers[cur].scale
        /\ cfg.offset = readers[cur].offset

\* C34 (as claimed): the division of a calibrate call on a hardware reader
\* never meets a zero delta, and the scale it assigns comes from a delta
\* raw_avg - offset of magnitude at least 10, offset being the reader's at
\* the division, also with a tare or zero running in another thread.  It
\* does not hold: the offset is read again after the guard.
C34_GuardedDelta ==
    [][ (/\ op.kind = "calibrate" /\ op.pc \in {"collect", "divide"}
         /\ last' # last /\ last'.op = "calibrate"
         /\ last'.out \in {"assign", "ZeroDivisionError"}) =>
          /\ last'.out = "assign"
          /\ ~RLt(RAbs(RSub(CalRawAvg(op.vals), readers[op.rd].offset)),
                  I(10)) ]_vars

----------------------------------------------------------------------------
\* C35: tare() and zero() are atomic on failure.  From the call up to the
\* assignment of the offset (which happens only after all 10 raw reads have
\* succeeded) no step of the request changes any reader's offset, the
\* configuration's offset or the persisted configuration; a raw read that
\* fails ends the request there, with nothing assigned and nothing saved.
Offsets == [i \in DOMAIN readers |-> readers[i].offset]

C35_AtomicOnFailure ==
    [][ /\ (/\ op' # op
            /\ \/ op.kind = "none" /\ op'.kind \in {"tare", "zero"}
               \/ op.kind \in {"tare", "zero"} /\ op.pc = "avg" /\ op'.pc # "cfg")
          => /\ Offsets' = Offsets
             /\ cfg' = cfg
             /\ saved' = saved
        /\ (/\ op.kind \in {"tare", "zero"}
            /\ last' # last
            /\ last'.op = op.kind
            /\ last'.out \in {"TimeoutError", "RuntimeError"})
          => /\ op.pc = "avg"
             /\ op' = NoOp
             /\ Offsets' = Offsets
             /\ cfg' = cfg
             /\ saved' = saved ]_vars

\* a tare that failed on a converter that stopped answering during the call
C35_Witness ==
    /\ last = Event("tare", "TimeoutError", I(0))
    /\ op = NoOp
    /\ ~readers[cur].demo_mode
    /\ ~hw.ready
    /\ budget = 0
    /\ readers[cur].offset = cfg.offset
    /\ saved = cfg

----------------------------------------------------------------------------
\* C36: when update_config recreates the reader, the stability history is
\* cleared together with the FIFOs: the step that replaces ctx.reader leaves
\* _last_vals empty and the stability flag false.
C36_HistoryClearedOnRecreate ==
    [][ (/\ last' # last
         /\ last'.op = "update_config"
         /\ last'.out = "ok"
         /\ ReaderFieldsDiffer(cfg, cfg')) =>
          /\ readers'[cur'].raw_window = <<>>
          /\ readers'[cur'].avg_window = <<>>
          /\ last_vals' = <<>>
          /\ stable' = FALSE ]_vars

----------------------------------------------------------------------------
(* The display process under configuration updates: the configurations     *)
(* differ in display_enabled and in the display settings only.             *)

MaxDisplaySetting == 2
MaxDisplayEffort == 6

DisplayConfigs ==
    { [BaseConfig EXCEPT !.display_enabled = e, !.display = s] :
        e \in BOOLEAN, s \in 0..MaxDisplaySetting }

InitDisplay ==
    /\ gpio_is_mock \in BOOLEAN
    /\ cfg \in DisplayConfigs
    /\ saved = cfg
    /\ readers = <<NewReader(cfg, gpio_is_mock)>>
    /\ cur = 1
    /\ gpio = ReaderPins(readers[1])
    /\ hw \in HwStates(gpio_is_mock)
    /\ last_vals = <<>>
    /\ stable = FALSE
    /\ display =
         LET d == [config |-> cfg.display, alive |-> FALSE, queue |-> FALSE,
                   stop_set |-> FALSE, child |-> cfg.display]
         IN  IF cfg.display_enabled THEN DisplayStart(d) ELSE d
    /\ op = NoOp
    /\ last = Event("init", "ok", I(0))
    /\ nreads = 0
    /\ budget = MaxDisplayEffort
    /\ driver = "running"
    /\ burst = {}
    /\ upd = NoUpd
    /\ who = "init"
    /\ chip = "A128"
    /\ mq = NoMq

NextDisplay ==
    \/ EnvChange /\ UNCHANGED <<conc, chip>>
    \/ ReadGrams /\ UNCHANGED <<conc, chip>>
    \/ (\E c \in DisplayConfigs : UpdateConfig(c)) /\ UNCHANGED <<conc, chip>>

SpecDisplay == InitDisplay /\ [][NextDisplay]_vars

\* C37: after update_config with changed display settings and the display
\* enabled in the new configuration, the display process is running and the
\* settings it uses are those of the new configuration.
C37_RestartUsesNewSettings ==
    [][ (/\ last' # last
         /\ last'.op = "update_config"
         /\ cfg'.display # cfg.display
         /\ cfg'.display_enabled) =>
          /\ display'.alive
          /\ display'.child = cfg'.display ]_vars

\* C38: after startup and after every completed update_config the display
\* process is running if and only if display_enabled is true in the current
\* configuration.
C38_RunningIffEnabled == display.alive <=> cfg.display_enabled


====
